---- MODULE Spec2Model ----
(***************************************************************************)
(* Model of the chat page of the college companion bot                     *)
(* (src/src/pages/Chat.tsx): the sendMessage handler with its knowledge-   *)
(* base matcher findBestMatch, and the React state it reads and writes.    *)
(*                                                                         *)
(* Text.  A JavaScript string is modelled as a sequence of atoms; the      *)
(* string is the concatenation of its atoms.  An atom is a whitespace      *)
(* character, one of the punctuation characters normalize removes, a chunk *)
(* containing upper-case letters (with its lower-cased form given by       *)
(* toLowerCase), or any other chunk of characters.  The functions of the   *)
(* source that produce words (split, filter) produce TLA+ strings, so the  *)
(* dictionaries are the literal arrays of the source.                      *)
(*                                                                         *)
(* Numbers.  A score is the exact rational num/den: the only non-integer   *)
(* score of the source is 85 + ratio * 10.                                 *)
(*                                                                         *)
(* Environment.  The user is signed in.  Of the database the rows of the   *)
(* messages table are state; what a fetch of the questions table, an       *)
(* insert or the chat function returns is chosen by the environment.  The  *)
(* rows of the conversations table are not modelled, only the React state  *)
(* that mirrors them.                                                      *)
(***************************************************************************)
EXTENDS Integers, Sequences, FiniteSets, TLC

NULL == "null"

(***************************************************************************)
(* Strings                                                                 *)
(***************************************************************************)
\* /\s/ : the whitespace characters of the inputs
Whitespace == {" ", "\t"}

\* /[?.,!'"]/ : the characters normalize removes
Punctuation == {"?", ".", ",", "!", "'", "\""}

\* String.prototype.toLowerCase on the chunks that carry upper-case letters
UpperChunks ==
  [x \in {"BCA", "Fees", "What", "Computer", "Science", "FEES", "Semester"} |->
     CASE x = "BCA" -> "bca"
       [] x = "Fees" -> "fees"
       [] x = "What" -> "what"
       [] x = "Computer" -> "computer"
       [] x = "Science" -> "science"
       [] x = "FEES" -> "fees"
       [] x = "Semester" -> "semester"]

toLowerCase(text) ==
  [i \in 1..Len(text) |->
     IF text[i] \in DOMAIN UpperChunks THEN UpperChunks[text[i]] ELSE text[i]]

\* replace(/[?.,!'"]/g, '')
stripPunctuation(text) == SelectSeq(text, LAMBDA a : a \notin Punctuation)

\* replace(/\s+/g, ' ') : every maximal run of whitespace becomes one space
RECURSIVE collapseWhitespace(_)
collapseWhitespace(text) ==
  IF text = <<>> THEN <<>>
  ELSE IF Head(text) \in Whitespace
       THEN IF Len(text) >= 2 /\ text[2] \in Whitespace
            THEN collapseWhitespace(Tail(text))
            ELSE <<" ">> \o collapseWhitespace(Tail(text))
       ELSE <<Head(text)>> \o collapseWhitespace(Tail(text))

RECURSIVE trimStart(_)
trimStart(text) ==
  IF text # <<>> /\ Head(text) \in Whitespace THEN trimStart(Tail(text)) ELSE text

RECURSIVE trimEnd(_)
trimEnd(text) ==
  IF text # <<>> /\ text[Len(text)] \in Whitespace
  THEN trimEnd(SubSeq(text, 1, Len(text) - 1))
  ELSE text

\* String.prototype.trim
trim(text) == trimEnd(trimStart(text))

\* the JavaScript string an atom sequence stands for
RECURSIVE Join(_)
Join(text) == IF text = <<>> THEN "" ELSE Head(text) \o Join(Tail(text))

\* normalize trimming before it strips and collapses
normalize_TrimFirst(t) == collapseWhitespace(stripPunctuation(trim(toLowerCase(t))))

normalize(t) == trim(collapseWhitespace(stripPunctuation(toLowerCase(t))))

\* split(' ') of a normalized text: the strings between the single spaces
RECURSIVE splitAcc(_, _)
splitAcc(text, cur) ==
  IF text = <<>> THEN <<cur>>
  ELSE IF Head(text) = " "
       THEN <<cur>> \o splitAcc(Tail(text), "")
       ELSE splitAcc(Tail(text), cur \o Head(text))

split(text) == splitAcc(text, "")

(***************************************************************************)
(* Dictionaries                                                            *)
(***************************************************************************)
actionWords ==
  {"fee", "fees", "cost", "price", "admission", "result", "results", "exam", "exams",
   "schedule", "timing", "deadline", "date", "contact", "phone", "email", "address", "hostel",
   "placement", "syllabus", "eligibility", "documents", "required", "process", "apply",
   "registration"}

criticalTerms ==
  {"1st", "2nd", "3rd", "4th", "5th", "6th",
   "first", "second", "third", "fourth", "fifth", "sixth",
   "i", "ii", "iii", "iv", "v", "vi", "semester"}

fillerWords ==
  {"what", "is", "the", "of", "for", "a", "an", "in", "to", "and", "or", "how", "much",
   "show", "me", "tell", "please", "can", "you", "about", "explain", "give", "details",
   "year", "sem"}

singleCommonWords == {"fee", "fees", "exam", "result", "admission", "course", "hostel"}

\* extractKeyTerms splitting the text as it is
extractKeyTerms_NoNormalize(t) ==
  SelectSeq(split(t), LAMBDA w : Len(w) > 1 /\ w \notin fillerWords)

extractKeyTerms(t) ==
  SelectSeq(split(normalize(t)), LAMBDA w : Len(w) > 1 /\ w \notin fillerWords)

\* Array.prototype.includes / some / filter on sequences of strings
includes(seq, x) == \E i \in 1..Len(seq) : seq[i] = x

hasActionWord(inputTerms) == \E i \in 1..Len(inputTerms) : inputTerms[i] \in actionWords

\* isExplanationQuery with every() in the place of some()
isExplanationQuery_Every(inputTerms) ==
  /\ \E i \in 1..Len(inputTerms) : inputTerms[i] \notin actionWords
  /\ Len(inputTerms) >= 1

isExplanationQuery(inputTerms) == ~hasActionWord(inputTerms) /\ Len(inputTerms) >= 1

isVagueQuery(inputTerms) == Len(inputTerms) = 1 /\ inputTerms[1] \in singleCommonWords

(***************************************************************************)
(* Scores: exact rationals num/den with den > 0                            *)
(***************************************************************************)
Num(n) == [num |-> n, den |-> 1]

GE(a, b) == a.num * b.den >= b.num * a.den

LT(a, b) == ~GE(a, b)

EQ(a, b) == a.num * b.den = b.num * a.den

IsZero(a) == a.num = 0

Minus(a, n) == [num |-> a.num - n * a.den, den |-> a.den]

\* arr.filter(t => other.includes(t)).length
countIn(arr, other) == Len(SelectSeq(arr, LAMBDA t : includes(other, t)))

(***************************************************************************)
(* The scorer: the body of questions.map in findBestMatch.  A row q of the *)
(* questions table is [id, question_en, answer_en, category, keywords];    *)
(* a row without category or keywords carries the empty text / sequence,   *)
(* which is what `|| ''` and `|| []` turn null into.                       *)
(***************************************************************************)
\* k.toLowerCase().trim() for each keyword
keywordsOf(q) == [i \in 1..Len(q.keywords) |-> trim(toLowerCase(q.keywords[i]))]

\* ruleExact comparing with the question as stored
ruleExact_RawQuestion(normalizedInput, q) ==
  IF normalizedInput = Join(q.question_en)
  THEN [score |-> Num(100), matchReason |-> "exact"]
  ELSE [score |-> Num(0), matchReason |-> ""]

\* 1. exact normalized match against the main question
ruleExact(normalizedInput, q) ==
  IF normalizedInput = Join(normalize(q.question_en))
  THEN [score |-> Num(100), matchReason |-> "exact"]
  ELSE [score |-> Num(0), matchReason |-> ""]

\* 2. exact match against any keyword phrase
ruleKeywordExact(prev, normalizedInput, keywords) ==
  IF IsZero(prev.score) /\ Len(keywords) > 0
     /\ \E i \in 1..Len(keywords) : normalizedInput = Join(normalize(keywords[i]))
  THEN [score |-> Num(98), matchReason |-> "keyword-phrase-exact"]
  ELSE prev

\* 3. the for-loop over the keyword phrases: the first phrase that matches
\*    forward (92) or in reverse (90) decides and breaks the loop
RECURSIVE keywordTermsLoop(_, _, _)
keywordTermsLoop(prev, inputTerms, keywords) ==
  IF keywords = <<>> THEN prev
  ELSE LET keywordTerms == extractKeyTerms(Head(keywords))
           matchedCount == countIn(inputTerms, keywordTerms)
           reverseCount == countIn(keywordTerms, inputTerms)
       IN IF matchedCount = Len(inputTerms) /\ Len(inputTerms) >= 1
          THEN [score |-> Num(92), matchReason |-> "keyword-phrase-terms"]
          ELSE IF reverseCount = Len(keywordTerms) /\ Len(keywordTerms) >= 2
               THEN [score |-> Num(90), matchReason |-> "keyword-phrase-reverse"]
               ELSE keywordTermsLoop(prev, inputTerms, Tail(keywords))

ruleKeywordTerms(prev, inputTerms, keywords) ==
  IF IsZero(prev.score) /\ Len(keywords) > 0
  THEN keywordTermsLoop(prev, inputTerms, keywords)
  ELSE prev

\* criticalMismatch of step 4
criticalMismatch(inputTerms, questionTerms) ==
  LET inputCritical == SelectSeq(inputTerms, LAMBDA t : t \in criticalTerms)
      questionCritical == SelectSeq(questionTerms, LAMBDA t : t \in criticalTerms)
  IN /\ Len(inputCritical) > 0
     /\ Len(questionCritical) > 0
     /\ \/ \E i \in 1..Len(inputCritical) : ~includes(questionCritical, inputCritical[i])
        \/ \E i \in 1..Len(questionCritical) : ~includes(inputCritical, questionCritical[i])

\* allTermsMatch asking for three terms
allTermsMatch_AtLeast3(inputTerms, questionTerms) ==
  /\ countIn(inputTerms, questionTerms) = Len(inputTerms)
  /\ Len(inputTerms) >= 3

\* matchedTerms.length === inputTerms.length && inputTerms.length >= 2
allTermsMatch(inputTerms, questionTerms) ==
  /\ countIn(inputTerms, questionTerms) = Len(inputTerms)
  /\ Len(inputTerms) >= 2

\* ruleTerms taking the ratio as a percentage: 85 + subjectMatchRatio * 100
ruleTerms_Percent(prev, inputTerms, questionTerms) ==
  IF ~(IsZero(prev.score) /\ Len(inputTerms) >= 1) THEN prev
  ELSE
    LET inputActionWords == SelectSeq(inputTerms, LAMBDA t : t \in actionWords)
        questionActionWords == SelectSeq(questionTerms, LAMBDA t : t \in actionWords)
        actionWordMatch ==
          /\ Len(inputActionWords) > 0
          /\ \E i \in 1..Len(inputActionWords) :
                includes(questionActionWords, inputActionWords[i])
        inputSubjectWords == SelectSeq(inputTerms, LAMBDA t : t \notin actionWords)
        questionSubjectWords == SelectSeq(questionTerms, LAMBDA t : t \notin actionWords)
        subjectMatchCount == countIn(inputSubjectWords, questionSubjectWords)
        reverseSubjectCount == countIn(questionSubjectWords, inputSubjectWords)
        \* ratio >= p/10, the ratio being 0 when the denominator is 0
        subjectRatioGE(p) ==
          IF Len(inputSubjectWords) > 0
          THEN 10 * subjectMatchCount >= p * Len(inputSubjectWords)
          ELSE 0 >= p
        reverseRatioGE(p) ==
          IF Len(questionSubjectWords) > 0
          THEN 10 * reverseSubjectCount >= p * Len(questionSubjectWords)
          ELSE 0 >= p
    IN IF criticalMismatch(inputTerms, questionTerms)
       THEN [score |-> Num(0), matchReason |-> "critical-mismatch"]
       ELSE IF allTermsMatch(inputTerms, questionTerms)
       THEN [score |-> Num(95), matchReason |-> "all-terms-match"]
       ELSE IF actionWordMatch /\ reverseRatioGE(8) /\ subjectRatioGE(5)
       THEN [score |-> Num(92), matchReason |-> "reverse-full-match"]
       ELSE IF actionWordMatch /\ subjectRatioGE(7)
       THEN [score |-> [num |-> 85 * Len(inputSubjectWords) + 100 * subjectMatchCount,
                        den |-> Len(inputSubjectWords)],
             matchReason |-> "subject-action-match"]
       ELSE IF actionWordMatch /\ reverseRatioGE(8)
       THEN [score |-> Num(85), matchReason |-> "reverse-subject-action"]
       ELSE prev

\* 4. flexible term matching
ruleTerms(prev, inputTerms, questionTerms) ==
  IF ~(IsZero(prev.score) /\ Len(inputTerms) >= 1) THEN prev
  ELSE
    LET inputActionWords == SelectSeq(inputTerms, LAMBDA t : t \in actionWords)
        questionActionWords == SelectSeq(questionTerms, LAMBDA t : t \in actionWords)
        actionWordMatch ==
          /\ Len(inputActionWords) > 0
          /\ \E i \in 1..Len(inputActionWords) :
                includes(questionActionWords, inputActionWords[i])
        inputSubjectWords == SelectSeq(inputTerms, LAMBDA t : t \notin actionWords)
        questionSubjectWords == SelectSeq(questionTerms, LAMBDA t : t \notin actionWords)
        subjectMatchCount == countIn(inputSubjectWords, questionSubjectWords)
        reverseSubjectCount == countIn(questionSubjectWords, inputSubjectWords)
        \* ratio >= p/10, the ratio being 0 when the denominator is 0
        subjectRatioGE(p) ==
          IF Len(inputSubjectWords) > 0
          THEN 10 * subjectMatchCount >= p * Len(inputSubjectWords)
          ELSE 0 >= p
        reverseRatioGE(p) ==
          IF Len(questionSubjectWords) > 0
          THEN 10 * reverseSubjectCount >= p * Len(questionSubjectWords)
          ELSE 0 >= p
    IN IF criticalMismatch(inputTerms, questionTerms)
       THEN [score |-> Num(0), matchReason |-> "critical-mismatch"]
       ELSE IF allTermsMatch(inputTerms, questionTerms)
       THEN [score |-> Num(95), matchReason |-> "all-terms-match"]
       ELSE IF actionWordMatch /\ reverseRatioGE(8) /\ subjectRatioGE(5)
       THEN [score |-> Num(92), matchReason |-> "reverse-full-match"]
       ELSE IF actionWordMatch /\ subjectRatioGE(7)
       THEN \* 85 + subjectMatchRatio * 10
            [score |-> [num |-> 85 * Len(inputSubjectWords) + 10 * subjectMatchCount,
                        den |-> Len(inputSubjectWords)],
             matchReason |-> "subject-action-match"]
       ELSE IF actionWordMatch /\ reverseRatioGE(8)
       THEN [score |-> Num(85), matchReason |-> "reverse-subject-action"]
       ELSE prev

\* ruleCategory giving 82
ruleCategory_Score82(prev, inputTerms, questionTerms, category) ==
  IF IsZero(prev.score) /\ category # ""
     /\ includes(inputTerms, category)
     /\ \E i \in 1..Len(inputTerms) : includes(questionTerms, inputTerms[i])
  THEN [score |-> Num(82), matchReason |-> "category-term"]
  ELSE prev

\* 5. category + term combination
ruleCategory(prev, inputTerms, questionTerms, category) ==
  IF IsZero(prev.score) /\ category # ""
     /\ includes(inputTerms, category)
     /\ \E i \in 1..Len(inputTerms) : includes(questionTerms, inputTerms[i])
  THEN [score |-> Num(72), matchReason |-> "category-term"]
  ELSE prev

\* the callback of questions.map: the row with its score and matchReason
scoreQuestion(normalizedInput, inputTerms, q) ==
  LET questionTerms == extractKeyTerms(q.question_en)
      category == Join(toLowerCase(q.category))
      keywords == keywordsOf(q)
      r1 == ruleExact(normalizedInput, q)
      r2 == ruleKeywordExact(r1, normalizedInput, keywords)
      r3 == ruleKeywordTerms(r2, inputTerms, keywords)
      r4 == ruleTerms(r3, inputTerms, questionTerms)
      r5 == ruleCategory(r4, inputTerms, questionTerms, category)
  IN [q |-> q, score |-> r5.score, matchReason |-> r5.matchReason]

(***************************************************************************)
(* Inputs                                                                  *)
(***************************************************************************)
\* at most this many rows in a fetched questions table
MaxEntries == 4

\* sendMessage is not started when the messages created would exceed this
MaxMessages == 2

\* the words of ws separated by single spaces
RECURSIVE W(_)
W(ws) ==
  IF ws = <<>> THEN <<>>
  ELSE IF Len(ws) = 1 THEN ws
       ELSE <<Head(ws), " ">> \o W(Tail(ws))

Row(question, answer, category, keywords) ==
  [question_en |-> question, answer_en |-> <<answer>>,
   category |-> category, keywords |-> keywords]

\* the rows a questions table is made of
RowPool ==
  { Row(W(<<"what", "are", "bca", "fees">>), "BCA fees are 50000", <<>>, <<>>),
    Row(W(<<"2nd", "semester", "fees">>), "2nd semester fees are 20000", <<"Fees">>, <<>>),
    Row(<<"Computer", " ", "Science">>, "Computer Science is a department", <<>>, <<>>),
    Row(<<"Computer", " ", "Science", " ", "Fees", "?">>, "CS fees are 60000",
        <<"fees">>, <<>>),
    Row(<<"Fees">>, "See the fee structure page", <<>>,
        << <<" ", "BCA", " ", "fees">>, W(<<"semester", "fees", "3rd">>) >>),
    Row(W(<<"bca", "fees">>), "BCA fees are 50000 per year", <<>>, <<>>) }

\* the tables: every sequence of at most MaxEntries rows, numbered by position
Tables ==
  UNION { { [i \in 1..n |-> [id |-> i] @@ rows[i]] : rows \in [1..n -> RowPool] }
          : n \in 0..MaxEntries }

\* what supabase.from('questions').select('*') resolves to: no data, or rows
NoData == [isNull |-> TRUE, rows |-> <<>>]

QuestionsData == {NoData} \cup {[isNull |-> FALSE, rows |-> t] : t \in Tables}

\* the texts a user sends
Contents ==
  { <<"BCA", " ", "fees">>,
    W(<<"3rd", "semester", "fees">>),
    <<"2nd", " ", "Semester", " ", "fees", "?">>,
    W(<<"computer", "science">>),
    <<"fees">>,
    W(<<"bca", "computer", "science", "fees">>),
    <<"What", " ", "are", "\t", " ", "BCA", " ", "Fees", "?">>,
    <<"?">>,
    W(<<"bca", "hostel", "fees">>),
    <<" ">>,
    <<"Computer", " ", "Science", " ", "fees">> }

ImageUrls == {NULL, "https://storage/upload.png"}

Link == [title |-> "Wikipedia", url |-> "https://en.wikipedia.org"]

GenericReply ==
  <<"I don't have exact information for this. Could you please clarify your question?">>

\* the statuses with which the chat function answers a request it failed on
FailureStatuses == {429, 402, 500}

\* what supabase.functions.invoke('chat') does: it throws, or resolves to
\* {error} when the function answered with a failure status, or to {data};
\* a missing message, image or links is empty
ChatResponses ==
  { [kind |-> "throw", status |-> 0, message |-> <<>>, generated_image |-> "",
     links |-> <<>>] }
  \cup { [kind |-> "error", status |-> st, message |-> <<>>, generated_image |-> "",
          links |-> <<>>] : st \in FailureStatuses }
  \cup { [kind |-> "data", status |-> 200, message |-> <<>>, generated_image |-> "",
          links |-> <<>>],
         [kind |-> "data", status |-> 200, message |-> <<"AI answer">>,
          generated_image |-> "", links |-> <<>>],
         [kind |-> "data", status |-> 200, message |-> <<"AI answer">>,
          generated_image |-> "data:image/png;base64", links |-> << <<Link>> >>] }

(***************************************************************************)
(* The resolver: the tail of findBestMatch                                 *)
(***************************************************************************)
\* CONFIDENCE_THRESHOLD without the vague case
CONFIDENCE_THRESHOLD_Always70(inputTerms) == 70

CONFIDENCE_THRESHOLD(inputTerms) == IF isVagueQuery(inputTerms) THEN 85 ELSE 70

\* insertDesc putting m in front of the elements of the same score
RECURSIVE insertDesc_TiesFirst(_, _)
insertDesc_TiesFirst(sorted, m) ==
  IF sorted = <<>> THEN <<m>>
  ELSE IF LT(m.score, Head(sorted).score)
       THEN <<Head(sorted)>> \o insertDesc_TiesFirst(Tail(sorted), m)
       ELSE <<m>> \o sorted

\* insert m behind every element whose score is not lower (stable)
RECURSIVE insertDesc(_, _)
insertDesc(sorted, m) ==
  IF sorted = <<>> THEN <<m>>
  ELSE IF GE(Head(sorted).score, m.score)
       THEN <<Head(sorted)>> \o insertDesc(Tail(sorted), m)
       ELSE <<m>> \o sorted

\* sortByScore leaving the array in the order of the table
sortByScore_Unsorted(arr) == arr

\* Array.prototype.sort((a, b) => b.score - a.score), which is stable
RECURSIVE sortByScore(_)
sortByScore(arr) ==
  IF arr = <<>> THEN <<>>
  ELSE insertDesc(sortByScore(SubSeq(arr, 1, Len(arr) - 1)), arr[Len(arr)])

\* slice that keeps the whole array
slice_NoLimit(arr, n) == arr

\* arr.slice(0, n)
slice(arr, n) == SubSeq(arr, 1, IF Len(arr) < n THEN Len(arr) ELSE n)

\* findBestMatch returns null, {ambiguous: true, matches} or
\* {ambiguous: false, match}; the last carries its match as matches[1]
\* threw: instead of returning, the call threw a TypeError
NullResult == [isNull |-> TRUE, ambiguous |-> FALSE, matches |-> <<>>, threw |-> FALSE]

TypeError == [isNull |-> TRUE, ambiguous |-> FALSE, matches |-> <<>>, threw |-> TRUE]

\* topMatchesOf with a margin of 15
topMatchesOf_Margin15(matches, topScore) ==
  SelectSeq(matches, LAMBDA m : GE(m.score, Minus(topScore, 15)))

\* matches.filter(m => m.score >= topScore - 5)
topMatchesOf(matches, topScore) ==
  SelectSeq(matches, LAMBDA m : GE(m.score, Minus(topScore, 5)))

resolveMatches(scored, inputTerms) ==
  LET threshold == Num(CONFIDENCE_THRESHOLD(inputTerms))
      matches == sortByScore(SelectSeq(scored, LAMBDA c : GE(c.score, threshold)))
  IN IF Len(matches) = 0 THEN NullResult
     ELSE LET topScore == matches[1].score
              topMatches == topMatchesOf(matches, topScore)
          IN IF Len(topMatches) > 1 /\ LT(topScore, Num(90))
             THEN [isNull |-> FALSE, ambiguous |-> TRUE,
                   matches |-> slice(topMatches, 3), threw |-> FALSE]
             ELSE [isNull |-> FALSE, ambiguous |-> FALSE,
                   matches |-> <<matches[1]>>, threw |-> FALSE]

\* the callback of questions.map tabulated over the inputs: it depends on
\* the text and on the question, category and keywords of the row only
scoreTable ==
  [c \in Contents |->
     [r \in RowPool |-> scoreQuestion(Join(normalize(c)), extractKeyTerms(c), r)]]

\* scoreAll with score and matchReason declared outside the callback: a row
\* that no rule scores keeps what the row before it was given
scoreAll_CarryOver(c, rows) ==
  [i \in 1..Len(rows) |->
     LET own(k) == scoreTable[c][Row(rows[k].question_en, rows[k].answer_en[1],
                                     rows[k].category, rows[k].keywords)]
         t == IF i > 1 /\ IsZero(own(i).score) /\ own(i).matchReason = ""
              THEN own(i - 1) ELSE own(i)
     IN [q |-> rows[i], score |-> t.score, matchReason |-> t.matchReason]]

\* questions.map(q => ...) for the rows the fetch returned: {...q, score, matchReason}
scoreAll(text, rows) ==
  [i \in 1..Len(rows) |->
     LET t == scoreTable[text][Row(rows[i].question_en, rows[i].answer_en[1],
                                   rows[i].category, rows[i].keywords)]
     IN [q |-> rows[i], score |-> t.score, matchReason |-> t.matchReason]]

\* skipsDatabase without the image guard
skipsDatabase_NoImageGuard(hasImage, inputTerms) == isExplanationQuery(inputTerms)

\* the two guards that make findBestMatch return before it fetches
skipsDatabase(hasImage, inputTerms) == hasImage \/ isExplanationQuery(inputTerms)

\* findBestMatch without the check for missing or empty data: null.map throws
findBestMatch_NoEmptyCheck(hasImage, text, data) ==
  IF skipsDatabase(hasImage, extractKeyTerms(text)) THEN NullResult
  ELSE IF data.isNull THEN TypeError
  ELSE resolveMatches(scoreAll(text, data.rows), extractKeyTerms(text))

\* findBestMatch for the data the fetch of the questions resolves to;
\* data is not looked at when a guard skips the fetch
findBestMatch(hasImage, text, data) ==
  IF skipsDatabase(hasImage, extractKeyTerms(text)) THEN NullResult
  ELSE IF data.isNull \/ Len(data.rows) = 0 THEN NullResult
  ELSE resolveMatches(scoreAll(text, data.rows), extractKeyTerms(text))

(***************************************************************************)
(* State                                                                   *)
(***************************************************************************)
VARIABLES
  conversations,        \* useState<Conversation[]>
  currentConversation,  \* useState<Conversation | null>: <<>> or <<conversation>>
  messages,             \* useState<Message[]>
  isLoading,            \* useState(false)
  dbMessages,           \* the rows of the messages table
  nextUuid,             \* number of crypto.randomUUID() calls so far
  chatCalls,            \* number of supabase.functions.invoke('chat') calls so far
  pc,                   \* where the running sendMessage is
  content,              \* sendMessage: parameter content
  imageUrl,             \* sendMessage: parameter imageUrl
  conversation,         \* sendMessage: local conversation, <<>> or <<conversation>>
  staleMessages,        \* sendMessage: the messages of the render it was called in
  userMessage,          \* sendMessage: local userMessage, <<>> or <<message>>
  fetched,              \* findBestMatch: the questions fetch was issued
  questions,            \* findBestMatch: local questions
  scored,               \* findBestMatch: local scored
  matchResult,          \* sendMessage: local matchResult
  response,             \* sendMessage: how invoke('chat') settled, <<>> or <<response>>
  botMessage            \* sendMessage: local botMessage, <<>> or <<message>>

\* the other callbacks of the chat page
VARIABLES
  loads,                \* the loadMessages calls in flight: the conversation ids asked for
  events,               \* the realtime events of the messages channel not yet handled
  deleting              \* the last delete handler called, <<>> or <<call>>

\* the chat function (Deno.serve handler), one request
VARIABLES
  handlerPc,            \* where the handler is
  request,              \* parameter req: <<>> or <<request>>
  needsImage,           \* handler: local needsImage
  gatewayResponse,      \* handler: how the text fetch settled, <<>> or <<reply>>
  aiMessage,            \* handler: local aiMessage
  parsed,               \* handler: local parsed, <<>> or <<value>>
  responseData,         \* handler: local responseData, <<>> or <<object>>
  imageResponse,        \* handler: how the image fetch settled, <<>> or <<reply>>
  httpResponse          \* the Response the handler returned, <<>> or <<response>>

\* normalize and extractKeyTerms applied to a text
VARIABLES
  text,                 \* the argument
  normalized,           \* <<>> or <<normalize(text)>>
  keyTerms              \* <<>> or <<extractKeyTerms(text)>>

\* the callback of questions.map applied to one row
VARIABLES
  query,                \* the user's text
  entry,                \* <<>> or <<row>>
  candidate             \* <<>> or <<the row with score and matchReason>>

reactVars == <<conversations, currentConversation, messages, isLoading>>

callbackVars == <<loads, events, deleting>>

localVars == <<content, imageUrl, conversation, staleMessages, userMessage,
               fetched, questions, scored, matchResult, response, botMessage>>

handlerVars == <<handlerPc, request, needsImage, gatewayResponse, aiMessage, parsed,
                 responseData, imageResponse, httpResponse>>

textVars == <<text, normalized, keyTerms>>

scorerVars == <<query, entry, candidate>>

\* the state outside the chat page
offPageVars == <<handlerVars, textVars, scorerVars>>

pageVars == <<conversations, currentConversation, messages, isLoading, dbMessages,
              nextUuid, chatCalls, pc, content, imageUrl, conversation, staleMessages,
              userMessage, fetched, questions, scored, matchResult, response, botMessage,
              loads, events, deleting>>

vars == <<pageVars, offPageVars>>

\* no request has reached the chat function
NoRequest ==
  /\ handlerPc = "idle"
  /\ request = <<>>
  /\ needsImage = FALSE
  /\ gatewayResponse = <<>>
  /\ aiMessage = ""
  /\ parsed = <<>>
  /\ responseData = <<>>
  /\ imageResponse = <<>>
  /\ httpResponse = <<>>

\* no text is being normalized
NoText == text = <<>> /\ normalized = <<>> /\ keyTerms = <<>>

\* no row is being scored
NoQuery == query = <<>> /\ entry = <<>> /\ candidate = <<>>

\* no sendMessage is running
NoLocals ==
  /\ content = <<>>
  /\ imageUrl = NULL
  /\ conversation = <<>>
  /\ staleMessages = <<>>
  /\ userMessage = <<>>
  /\ fetched = FALSE
  /\ questions = NoData
  /\ scored = <<>>
  /\ matchResult = NullResult
  /\ response = <<>>
  /\ botMessage = <<>>

\* the chat page as it is mounted, but for its list of conversations
Mounted ==
  /\ currentConversation = <<>>
  /\ messages = <<>>
  /\ isLoading = FALSE
  /\ dbMessages = <<>>
  /\ nextUuid = 0
  /\ chatCalls = 0
  /\ pc = "idle"
  /\ NoLocals
  /\ loads = {}
  /\ events = <<>>
  /\ deleting = <<>>

\* the chat page as it is mounted
NoChat == conversations = <<>> /\ Mounted

Init ==
  /\ NoChat
  /\ NoRequest
  /\ NoText
  /\ NoQuery

ResetLocals ==
  /\ content' = <<>>
  /\ imageUrl' = NULL
  /\ conversation' = <<>>
  /\ staleMessages' = <<>>
  /\ userMessage' = <<>>
  /\ fetched' = FALSE
  /\ questions' = NoData
  /\ scored' = <<>>
  /\ matchResult' = NullResult
  /\ response' = <<>>
  /\ botMessage' = <<>>

(***************************************************************************)
(* The effect on currentConversation and the messages channel              *)
(***************************************************************************)
\* the channel of the effect is subscribed for this conversation
subscribedTo(id) == currentConversation # <<>> /\ currentConversation[1].id = id

\* the database tells the subscribed channel of a change of a row
notify(kind, row) ==
  events' = IF subscribedTo(row.conversation_id)
            THEN Append(events, [kind |-> kind, row |-> row])
            ELSE events

\* useEffect(..., [currentConversation]) after setCurrentConversation(next)
\* with a new object: the cleanup removes the channel, loadMessages is called
\* and a channel is subscribed for the conversation.  The events of a channel
\* not yet handled are kept when the next channel is for the same conversation.
messagesEffect(next) ==
  /\ loads' = IF next = <<>> THEN loads ELSE loads \cup {next[1].id}
  /\ events' = IF next # <<>> /\ subscribedTo(next[1].id) THEN events ELSE <<>>

(***************************************************************************)
(* sendMessage, one action per stretch between two awaits                  *)
(***************************************************************************)
\* the Message object sendMessage builds for the user's text
newUserMessage(c, img, uuid) ==
  [id |-> <<"uuid", uuid>>, role |-> "user", content |-> c, image_url |-> img,
   links |-> <<>>, source |-> NULL]

\* the row supabase.from('messages').insert(...) adds
newRow(conv, role, c, img, source) ==
  [id |-> <<"row", Len(dbMessages) + 1>>, conversation_id |-> conv.id, role |-> role,
   content |-> c, image_url |-> img, source |-> source]

\* sendMessage up to its first await: the early return, then either the
\* await of createNewConversation or the optimistic append of the user message
SendMessage(c, img) ==
  /\ pc = "idle"
  /\ nextUuid + 2 <= MaxMessages
  /\ IF trim(c) = <<>> /\ img = NULL
     THEN UNCHANGED vars
     ELSE /\ content' = c
          /\ imageUrl' = img
          /\ staleMessages' = messages
          /\ conversation' = currentConversation
          /\ IF currentConversation = <<>>
             THEN /\ pc' = "createNewConversation"
                  /\ UNCHANGED <<messages, isLoading, nextUuid, userMessage>>
             ELSE /\ userMessage' = <<newUserMessage(c, img, nextUuid + 1)>>
                  /\ nextUuid' = nextUuid + 1
                  /\ messages' = Append(messages, newUserMessage(c, img, nextUuid + 1))
                  /\ isLoading' = TRUE
                  /\ pc' = "saveUserMessage"
          /\ UNCHANGED <<conversations, currentConversation, dbMessages, chatCalls,
                         fetched, questions, scored, matchResult, response, botMessage,
                         callbackVars, offPageVars>>

\* createNewConversation resolves: on an error sendMessage returns, otherwise
\* the new conversation becomes current, the list is emptied and sendMessage
\* goes on to append the user message
CreateNewConversation(ok) ==
  /\ pc = "createNewConversation"
  /\ IF ~ok
     THEN /\ pc' = "idle"
          /\ ResetLocals
          /\ UNCHANGED <<reactVars, dbMessages, nextUuid, chatCalls, callbackVars,
                         offPageVars>>
     ELSE LET data == [id |-> Len(conversations) + 1, title |-> <<"New Chat">>]
              um == newUserMessage(content, imageUrl, nextUuid + 1)
          IN /\ conversations' = <<data>> \o conversations
             /\ currentConversation' = <<data>>
             /\ conversation' = <<data>>
             /\ userMessage' = <<um>>
             /\ nextUuid' = nextUuid + 1
             /\ messages' = <<um>>
             /\ isLoading' = TRUE
             /\ pc' = "saveUserMessage"
             /\ messagesEffect(<<data>>)
             /\ UNCHANGED <<dbMessages, chatCalls, content, imageUrl, staleMessages,
                            fetched, questions, scored, matchResult, response, botMessage,
                            deleting, offPageVars>>

\* the insert of the user message resolves, with or without an error
SaveUserMessage(userMsgError) ==
  /\ pc = "saveUserMessage"
  /\ LET row == newRow(conversation[1], "user", content, imageUrl, NULL)
     IN IF userMsgError
        THEN UNCHANGED <<dbMessages, events>>
        ELSE dbMessages' = Append(dbMessages, row) /\ notify("INSERT", row)
  /\ pc' = IF Len(staleMessages) = 0 THEN "updateTitle" ELSE "findBestMatch"
  /\ UNCHANGED <<reactVars, nextUuid, chatCalls, localVars, loads, deleting, offPageVars>>

\* the title update of a first message resolves; content is shorter than the
\* 50 characters the title is cut at
UpdateTitle ==
  /\ pc = "updateTitle"
  /\ LET conv == conversation[1]
     IN /\ conversations' =
             [i \in 1..Len(conversations) |->
                IF conversations[i].id = conv.id
                THEN [conversations[i] EXCEPT !.title = content]
                ELSE conversations[i]]
        /\ currentConversation' = <<[conv EXCEPT !.title = content]>>
        /\ messagesEffect(<<[conv EXCEPT !.title = content]>>)
  /\ pc' = "findBestMatch"
  /\ UNCHANGED <<messages, isLoading, dbMessages, nextUuid, chatCalls, localVars,
                 deleting, offPageVars>>

\* await findBestMatch(): a guard returns null, or the questions are fetched
\* and scored; an exception thrown in it would reject sendMessage
\* datas: what the fetch of the questions can resolve to
FindBestMatchOf(datas) ==
  /\ pc = "findBestMatch"
  /\ LET hasImage == imageUrl # NULL
     IN IF skipsDatabase(hasImage, extractKeyTerms(content))
        THEN /\ matchResult' = findBestMatch(hasImage, content, NoData)
             /\ UNCHANGED <<fetched, questions, scored>>
        ELSE \E data \in datas :
               /\ fetched' = TRUE
               /\ questions' = data
               /\ scored' = scoreAll(content, data.rows)
               /\ matchResult' = findBestMatch(hasImage, content, data)
  /\ pc' = IF matchResult'.threw THEN "rejected" ELSE "respond"
  /\ UNCHANGED <<reactVars, dbMessages, nextUuid, chatCalls, content, imageUrl,
                 conversation, staleMessages, userMessage, response, botMessage,
                 callbackVars, offPageVars>>

FindBestMatch == FindBestMatchOf(QuestionsData)

\* the numbered list of an ambiguous reply
RECURSIVE optionLines(_, _)
optionLines(matches, i) ==
  IF i > Len(matches) THEN <<>>
  ELSE <<ToString(i) \o ". ">> \o matches[i].q.question_en
       \o (IF i < Len(matches) THEN <<"\n">> ELSE <<>>)
       \o optionLines(matches, i + 1)

newBotMessage(uuid, botResponse, img, links, source) ==
  [id |-> <<"uuid", uuid>>, role |-> "assistant", content |-> botResponse,
   image_url |-> img, links |-> links, source |-> source]

\* ShowBotMessage without setIsLoading(false)
ShowBotMessage_KeepLoading(bm) ==
  /\ botMessage' = <<bm>>
  /\ nextUuid' = nextUuid + 1
  /\ messages' = Append(messages, bm)
  /\ isLoading' = isLoading
  /\ pc' = "saveBotMessage"

\* setMessages(prev => [...prev, botMessage]); setIsLoading(false)
ShowBotMessage(bm) ==
  /\ botMessage' = <<bm>>
  /\ nextUuid' = nextUuid + 1
  /\ messages' = Append(messages, bm)
  /\ isLoading' = FALSE
  /\ pc' = "saveBotMessage"

\* Respond asking the chat function when the match is ambiguous
Respond_AmbiguousToAI ==
  /\ pc = "respond"
  /\ IF ~matchResult.isNull /\ ~matchResult.ambiguous
     THEN /\ ShowBotMessage(newBotMessage(nextUuid + 1, matchResult.matches[1].q.answer_en,
                                          NULL, <<>>, "database"))
          /\ UNCHANGED chatCalls
     ELSE /\ chatCalls' = chatCalls + 1
          /\ pc' = "invokeChat"
          /\ UNCHANGED <<messages, isLoading, nextUuid, botMessage>>
  /\ fetched' = FALSE
  /\ questions' = NoData
  /\ scored' = <<>>
  /\ UNCHANGED <<conversations, currentConversation, dbMessages, content, imageUrl,
                 conversation, staleMessages, userMessage, matchResult, response,
                 callbackVars, offPageVars>>

\* after findBestMatch: answer from the database, or invoke the chat function
Respond ==
  /\ pc = "respond"
  /\ IF ~matchResult.isNull /\ ~matchResult.ambiguous
     THEN /\ ShowBotMessage(newBotMessage(nextUuid + 1, matchResult.matches[1].q.answer_en,
                                          NULL, <<>>, "database"))
          /\ UNCHANGED chatCalls
     ELSE IF ~matchResult.isNull /\ matchResult.ambiguous
     THEN /\ ShowBotMessage(newBotMessage(nextUuid + 1,
               <<"I found multiple possible answers. Could you please clarify which one you are asking about?\n\n">>
               \o optionLines(matchResult.matches, 1)
               \o <<"\n\nPlease provide more specific details.">>,
               NULL, <<>>, "database"))
          /\ UNCHANGED chatCalls
     ELSE /\ chatCalls' = chatCalls + 1
          /\ pc' = "invokeChat"
          /\ UNCHANGED <<messages, isLoading, nextUuid, botMessage>>
  /\ fetched' = FALSE
  /\ questions' = NoData
  /\ scored' = <<>>
  /\ UNCHANGED <<conversations, currentConversation, dbMessages, content, imageUrl,
                 conversation, staleMessages, userMessage, matchResult, response,
                 callbackVars, offPageVars>>

\* caught with the try opened after the await of invoke
caught_AfterAwait(r) == r.kind = "error"

\* the failures the try of the fallback branch encloses: the await of invoke
\* that throws, and the throw on response.error
caught(r) == r.kind \in {"throw", "error"}

\* supabase.functions.invoke('chat') settles: in the try the reply is taken
\* from response.data, in the catch it is the generic reply
InvokeChat(r) ==
  /\ pc = "invokeChat"
  /\ response' = <<r>>
  /\ IF r.kind = "data"
     THEN ShowBotMessage(newBotMessage(nextUuid + 1,
            IF r.message # <<>> THEN r.message ELSE GenericReply,
            IF r.generated_image # "" THEN r.generated_image ELSE NULL,
            IF r.links # <<>> THEN r.links ELSE <<>>,
            "ai"))
     ELSE IF caught(r)
     THEN ShowBotMessage(newBotMessage(nextUuid + 1, GenericReply, NULL, <<>>, "ai"))
     ELSE /\ pc' = "rejected"
          /\ UNCHANGED <<messages, isLoading, nextUuid, botMessage>>
  /\ UNCHANGED <<conversations, currentConversation, dbMessages, chatCalls, content,
                 imageUrl, conversation, staleMessages, userMessage, fetched, questions,
                 scored, matchResult, callbackVars, offPageVars>>

\* the insert of the bot message settles: "ok", "error" (logged) or "throw"
\* (caught, sendMessage ends)
SaveBotMessage(outcome) ==
  /\ pc = "saveBotMessage"
  /\ LET row == newRow(conversation[1], "assistant", botMessage[1].content,
                       botMessage[1].image_url, botMessage[1].source)
     IN IF outcome = "ok"
        THEN dbMessages' = Append(dbMessages, row) /\ notify("INSERT", row)
        ELSE UNCHANGED <<dbMessages, events>>
  /\ IF outcome = "throw"
     THEN pc' = "idle" /\ ResetLocals
     ELSE pc' = "refetch" /\ UNCHANGED localVars
  /\ UNCHANGED <<reactVars, nextUuid, chatCalls, loads, deleting, offPageVars>>

\* currentMessages.find(om => om.content === m.content && om.role === m.role)?.links || null
optimisticLinks(currentMessages, m) ==
  LET hits == SelectSeq(currentMessages,
                        LAMBDA om : om.role = m.role /\ om.content = m.content)
  IN IF hits = <<>> THEN <<>> ELSE hits[1].links

\* the timestamp update and the refetch of the conversation's messages settle
Refetch(isNull) ==
  /\ pc = "refetch"
  /\ LET currentMessages == staleMessages \o userMessage \o botMessage
         rows == SelectSeq(dbMessages,
                           LAMBDA r : r.conversation_id = conversation[1].id)
     IN messages' = IF isNull THEN messages
                    ELSE [i \in 1..Len(rows) |->
                            [id |-> rows[i].id, role |-> rows[i].role,
                             content |-> rows[i].content, image_url |-> rows[i].image_url,
                             links |-> optimisticLinks(currentMessages, rows[i]),
                             source |-> rows[i].source]]
  /\ pc' = "idle"
  /\ ResetLocals
  /\ UNCHANGED <<conversations, currentConversation, isLoading, dbMessages, nextUuid,
                 chatCalls, callbackVars, offPageVars>>

Next ==
  \/ \E c \in Contents, img \in ImageUrls : SendMessage(c, img)
  \/ \E ok \in BOOLEAN : CreateNewConversation(ok)
  \/ \E userMsgError \in BOOLEAN : SaveUserMessage(userMsgError)
  \/ UpdateTitle
  \/ FindBestMatch
  \/ Respond
  \/ \E r \in ChatResponses : InvokeChat(r)
  \/ \E outcome \in {"ok", "error", "throw"} : SaveBotMessage(outcome)
  \/ \E isNull \in BOOLEAN : Refetch(isNull)

\* sendMessage with no other callback of the page running
Spec == Init /\ [][Next]_vars

(***************************************************************************)
(* The chat page with its other callbacks: the handlers of the sidebar and *)
(* of the message list, loadMessages and the realtime events of the        *)
(* messages channel, interleaved with the steps of sendMessage.  The       *)
(* realtime channel of the conversations table is not modelled.  Rows of   *)
(* the messages table that the deletion of a conversation removes through  *)
(* the schema are not modelled either: the schema is not among the sources.*)
(***************************************************************************)
\* a conversation loadConversations found
ExistingConversation == [id |-> 0, title |-> <<"Old chat">>]

\* the texts, tables and chat responses of this specification
PageContents == { <<"BCA", " ", "fees">> }

PageQuestionsData ==
  { NoData,
    [isNull |-> FALSE,
     rows |-> << [id |-> 1] @@ Row(W(<<"what", "are", "bca", "fees">>),
                                   "BCA fees are 50000", <<>>, <<>>) >>] }

PageChatResponses == {r \in ChatResponses : r.kind = "throw" \/ r.links # <<>>}

\* the conversation_id of a row that was deleted; the row keeps its place
Deleted == -1

\* the Message a row of the messages table is mapped to ({...m, role}); it
\* has no links
rowMessage(r) ==
  [id |-> r.id, role |-> r.role, content |-> r.content, image_url |-> r.image_url,
   links |-> <<>>, source |-> r.source]

\* handleNewChat
HandleNewChat ==
  /\ currentConversation' = <<>>
  /\ messages' = <<>>
  /\ IF currentConversation = <<>>
     THEN UNCHANGED <<loads, events>>
     ELSE messagesEffect(<<>>)
  /\ UNCHANGED <<conversations, isLoading, dbMessages, nextUuid, chatCalls, pc, localVars,
                 deleting, offPageVars>>

\* handleSelectConversation with the i-th conversation of the sidebar; the
\* effect runs when the state changes (objects are compared by their value)
HandleSelectConversation(i) ==
  /\ i \in 1..Len(conversations)
  /\ currentConversation' = <<conversations[i]>>
  /\ IF currentConversation = <<conversations[i]>>
     THEN UNCHANGED <<loads, events>>
     ELSE messagesEffect(<<conversations[i]>>)
  /\ UNCHANGED <<conversations, messages, isLoading, dbMessages, nextUuid, chatCalls, pc,
                 localVars, deleting, offPageVars>>

\* the select of loadMessages(conversationId) resolves, with an error or
\* with the rows of the conversation
LoadMessages(conversationId, error) ==
  /\ conversationId \in loads
  /\ loads' = loads \ {conversationId}
  /\ LET rows == SelectSeq(dbMessages, LAMBDA r : r.conversation_id = conversationId)
     IN messages' = IF error THEN messages
                    ELSE [i \in 1..Len(rows) |-> rowMessage(rows[i])]
  /\ UNCHANGED <<conversations, currentConversation, isLoading, dbMessages, nextUuid,
                 chatCalls, pc, localVars, events, deleting, offPageVars>>

\* the handlers of the messages channel: an INSERT is appended unless a
\* message of the list has the id of the row, a DELETE removes the message
RealtimeEvent ==
  /\ events # <<>>
  /\ LET e == Head(events)
     IN messages' =
          IF e.kind = "INSERT"
          THEN IF \E i \in 1..Len(messages) : messages[i].id = e.row.id
               THEN messages
               ELSE Append(messages, rowMessage(e.row))
          ELSE SelectSeq(messages, LAMBDA m : m.id # e.row.id)
  /\ events' = Tail(events)
  /\ UNCHANGED <<conversations, currentConversation, isLoading, dbMessages, nextUuid,
                 chatCalls, pc, localVars, loads, deleting, offPageVars>>

\* a delete handler is awaiting its database call
DeletePending == deleting # <<>> /\ deleting[1].status = "pending"

\* the delete handlers are called at most this many times
MaxDeleteCalls == 1

\* the number of calls of delete handlers so far
deleteCalls == IF deleting = <<>> THEN 0 ELSE deleting[1].n

\* a delete handler is called: its argument and the currentConversation of
\* the render it was created in
DeleteCall(kind, id) ==
  /\ ~DeletePending
  /\ deleteCalls < MaxDeleteCalls
  /\ deleting' = <<[kind |-> kind, id |-> id, current |-> currentConversation,
                    status |-> "pending", n |-> deleteCalls + 1]>>
  /\ UNCHANGED <<reactVars, dbMessages, nextUuid, chatCalls, pc, localVars, loads, events,
                 offPageVars>>

\* handleDeleteConversation with the i-th conversation of the sidebar
HandleDeleteConversation(i) ==
  /\ i \in 1..Len(conversations)
  /\ DeleteCall("conversation", <<conversations[i].id>>)

\* handleDeleteMessage with the i-th message of the list
HandleDeleteMessage(i) ==
  /\ i \in 1..Len(messages)
  /\ DeleteCall("message", messages[i].id)

\* handleClearAllChats
HandleClearAllChats == DeleteCall("all", <<>>)

\* clearsView whatever the conversation deleted
clearsView_Always(call) == TRUE

\* currentConversation?.id === conversationId
clearsView(call) == call.current # <<>> /\ <<call.current[1].id>> = call.id

\* setCurrentConversation(null); setMessages([])
ClearView ==
  /\ currentConversation' = <<>>
  /\ messages' = <<>>
  /\ IF currentConversation = <<>> THEN UNCHANGED loads ELSE messagesEffect(<<>>)

\* the delete of the handler resolves: with an error the handler returns,
\* otherwise it updates the state
DeleteSettled(error) ==
  /\ DeletePending
  /\ LET call == deleting[1]
     IN /\ deleting' = <<[call EXCEPT !.status = IF error THEN "error" ELSE "ok"]>>
        /\ IF error
           THEN UNCHANGED <<reactVars, dbMessages, loads, events>>
           ELSE CASE call.kind = "conversation" ->
                       /\ conversations' =
                            SelectSeq(conversations, LAMBDA c : <<c.id>> # call.id)
                       /\ IF clearsView(call)
                          THEN ClearView /\ (currentConversation = <<>> => UNCHANGED events)
                          ELSE UNCHANGED <<currentConversation, messages, loads, events>>
                       /\ UNCHANGED <<isLoading, dbMessages>>
                  [] call.kind = "message" ->
                       /\ messages' = SelectSeq(messages, LAMBDA m : m.id # call.id)
                       /\ dbMessages' =
                            [k \in 1..Len(dbMessages) |->
                               IF dbMessages[k].id = call.id
                               THEN [dbMessages[k] EXCEPT !.conversation_id = Deleted]
                               ELSE dbMessages[k]]
                       /\ events' =
                            events \o
                            SelectSeq([k \in 1..Len(dbMessages) |->
                                         [kind |-> "DELETE", row |-> dbMessages[k]]],
                                      LAMBDA e : /\ e.row.id = call.id
                                                 /\ subscribedTo(e.row.conversation_id))
                       /\ UNCHANGED <<conversations, currentConversation, isLoading, loads>>
                  [] call.kind = "all" ->
                       /\ conversations' = <<>>
                       /\ ClearView /\ (currentConversation = <<>> => UNCHANGED events)
                       /\ UNCHANGED <<isLoading, dbMessages>>
  /\ UNCHANGED <<nextUuid, chatCalls, pc, localVars, offPageVars>>

\* the steps of sendMessage after its first
SendSteps ==
  \/ \E ok \in BOOLEAN : CreateNewConversation(ok)
  \/ \E userMsgError \in BOOLEAN : SaveUserMessage(userMsgError)
  \/ UpdateTitle
  \/ FindBestMatchOf(PageQuestionsData)
  \/ Respond
  \/ \E r \in PageChatResponses : InvokeChat(r)
  \/ \E outcome \in {"ok", "error", "throw"} : SaveBotMessage(outcome)
  \/ \E isNull \in BOOLEAN : Refetch(isNull)

PageNext ==
  \/ \E c \in PageContents : SendMessage(c, NULL)
  \/ SendSteps
  \/ HandleNewChat
  \/ \E i \in 1..Len(conversations) : HandleSelectConversation(i)
  \/ \E conversationId \in loads, error \in BOOLEAN : LoadMessages(conversationId, error)
  \/ RealtimeEvent
  \/ \E i \in 1..Len(conversations) : HandleDeleteConversation(i)
  \/ \E i \in 1..Len(messages) : HandleDeleteMessage(i)
  \/ HandleClearAllChats
  \/ \E error \in BOOLEAN : DeleteSettled(error)

\* the page after loadConversations resolved, with no conversation or one
PageInit ==
  /\ conversations \in {<<>>, <<ExistingConversation>>}
  /\ Mounted
  /\ NoRequest
  /\ NoText
  /\ NoQuery

PageSpec == PageInit /\ [][PageNext]_vars

\* sendMessage with the callbacks of the messages effect and handleNewChat
SendNext ==
  \/ \E c \in PageContents, img \in ImageUrls : SendMessage(c, img)
  \/ SendSteps
  \/ HandleNewChat
  \/ \E conversationId \in loads, error \in BOOLEAN : LoadMessages(conversationId, error)
  \/ RealtimeEvent

\* every await of sendMessage settles
FairSendSpec == PageInit /\ [][SendNext]_vars /\ WF_vars(SendSteps)

(***************************************************************************)
(* The chat function (src/unnamed/part_009): the Deno.serve handler that   *)
(* sendMessage invokes.  Its texts are JavaScript strings, modelled by     *)
(* TLA+ strings.  What the two fetches of the AI gateway settle with is    *)
(* chosen by the environment.                                              *)
(***************************************************************************)
UpperLetters == "ABCDEFGHIJKLMNOPQRSTUVWXYZ"

LowerLetters == "abcdefghijklmnopqrstuvwxyz"

\* the character at position i of the string s
charAt(s, i) == SubSeq(s, i, i)

lowerChar(c) ==
  IF \E i \in 1..Len(UpperLetters) : charAt(UpperLetters, i) = c
  THEN charAt(LowerLetters, CHOOSE i \in 1..Len(UpperLetters) : charAt(UpperLetters, i) = c)
  ELSE c

\* String.prototype.toLowerCase on a string
RECURSIVE lowerCaseFrom(_, _)
lowerCaseFrom(s, i) ==
  IF i > Len(s) THEN "" ELSE lowerChar(charAt(s, i)) \o lowerCaseFrom(s, i + 1)

lowerCase(s) == lowerCaseFrom(s, 1)

\* String.prototype.includes: t occurs in s
contains(s, t) ==
  \E i \in 1..(Len(s) - Len(t) + 1) : SubSeq(s, i, i + Len(t) - 1) = t

startsWith(s, t) == Len(s) >= Len(t) /\ SubSeq(s, 1, Len(t)) = t

endsWith(s, t) == Len(s) >= Len(t) /\ SubSeq(s, Len(s) - Len(t) + 1, Len(s)) = t

\* s.slice(n) and s.slice(0, -n)
sliceFrom(s, n) == IF n >= Len(s) THEN "" ELSE SubSeq(s, n + 1, Len(s))

sliceEnd(s, n) == IF n >= Len(s) THEN "" ELSE SubSeq(s, 1, Len(s) - n)

WhiteSpaceChars == {" ", "\t", "\n", "\r"}

\* String.prototype.trim on a string
RECURSIVE trimString(_)
trimString(s) ==
  IF Len(s) = 0 THEN s
  ELSE IF charAt(s, 1) \in WhiteSpaceChars THEN trimString(sliceFrom(s, 1))
  ELSE IF charAt(s, Len(s)) \in WhiteSpaceChars THEN trimString(sliceEnd(s, 1))
  ELSE s

imageGenerationTriggers ==
  {"explain", "explanation", "diagram", "flow", "process", "architecture",
   "example", "show me", "draw", "image", "illustrate", "visualize",
   "how does", "how it works", "structure", "flowchart", "chart",
   "demonstrate", "depict", "represent", "layout", "design", "model"}

noImageTopics ==
  {"fees", "fee structure", "phone", "contact", "address", "email",
   "timing", "hours", "date", "deadline", "cost", "price", "number",
   "location", "directions", "office", "registration number"}

\* shouldGenerateImage without the check of the topics
shouldGenerateImage_NoExclusion(c) ==
  LET contentLower == lowerCase(c)
  IN \E trigger \in imageGenerationTriggers : contains(contentLower, trigger)

shouldGenerateImage(c) ==
  LET contentLower == lowerCase(c)
      hasNoImageTopic == \E topic \in noImageTopics : contains(contentLower, topic)
  IN IF hasNoImageTopic THEN FALSE
     ELSE \E trigger \in imageGenerationTriggers : contains(contentLower, trigger)

(***************************************************************************)
(* JSON.  A parsed value is [kind, type, text, image_prompt, links]: kind  *)
(* is "object", "null", "number", "string" or "array", and each property   *)
(* is <<>> when the value does not have it and <<v>> when it has.          *)
(***************************************************************************)
JsonValue(kind, type, txt, image_prompt, links) ==
  [kind |-> kind, type |-> type, text |-> txt, image_prompt |-> image_prompt,
   links |-> links]

WikipediaLink == [title |-> "Wikipedia", url |-> "https://en.wikipedia.org"]

\* the JSON texts among the inputs
PayloadFull ==
  "{\"type\":\"text+image+links\",\"text\":\"A compiler translates source code.\",\"image_prompt\":\"compiler phases\",\"links\":[{\"title\":\"Wikipedia\",\"url\":\"https://en.wikipedia.org\"}]}"

PayloadNoLinks ==
  "{\"type\":\"text+image+links\",\"text\":\"A stack is last in, first out.\",\"image_prompt\":\"stack push and pop\"}"

PayloadNoPrompt ==
  "{\"type\":\"text+image+links\",\"text\":\"A queue is first in, first out.\",\"links\":[{\"title\":\"Wikipedia\",\"url\":\"https://en.wikipedia.org\"}]}"

PayloadEmptyPrompt ==
  "{\"type\":\"text+image+links\",\"text\":\"A heap is a tree.\",\"image_prompt\":\"\",\"links\":[]}"

PayloadOtherType == "{\"type\":\"text\",\"text\":\"Plain answer.\",\"image_prompt\":\"none\"}"

PayloadTruncated == "{\"type\":\"text+image+links\",\"text\":\"A compiler transl"

\* JSON.parse: the value of a JSON text; any other text is a SyntaxError
SyntaxError == [ok |-> FALSE, value |-> JsonValue("", <<>>, <<>>, <<>>, <<>>)]

JSONparse(s) ==
  CASE s = PayloadFull ->
         [ok |-> TRUE,
          value |-> JsonValue("object", <<"text+image+links">>,
                              <<"A compiler translates source code.">>,
                              <<"compiler phases">>, << <<WikipediaLink>> >>)]
    [] s = PayloadNoLinks ->
         [ok |-> TRUE,
          value |-> JsonValue("object", <<"text+image+links">>,
                              <<"A stack is last in, first out.">>,
                              <<"stack push and pop">>, <<>>)]
    [] s = PayloadNoPrompt ->
         [ok |-> TRUE,
          value |-> JsonValue("object", <<"text+image+links">>,
                              <<"A queue is first in, first out.">>,
                              <<>>, << <<WikipediaLink>> >>)]
    [] s = PayloadEmptyPrompt ->
         [ok |-> TRUE,
          value |-> JsonValue("object", <<"text+image+links">>,
                              <<"A heap is a tree.">>, <<"">>, << <<>> >>)]
    [] s = PayloadOtherType ->
         [ok |-> TRUE,
          value |-> JsonValue("object", <<"text">>, <<"Plain answer.">>, <<"none">>, <<>>)]
    [] s = "null" -> [ok |-> TRUE, value |-> JsonValue("null", <<>>, <<>>, <<>>, <<>>)]
    [] s = "42" -> [ok |-> TRUE, value |-> JsonValue("number", <<>>, <<>>, <<>>, <<>>)]
    [] s = "\"A compiler translates source code.\"" ->
         [ok |-> TRUE, value |-> JsonValue("string", <<>>, <<>>, <<>>, <<>>)]
    [] s = "[]" -> [ok |-> TRUE, value |-> JsonValue("array", <<>>, <<>>, <<>>, <<>>)]
    [] OTHER -> SyntaxError

\* the fence of a markdown code block, three backquotes; a TLA+ string
\* cannot hold a backquote, the character ~ stands for it
Fence == "~~~"

\* the clean-up of aiMessage before JSON.parse
cleanedMessage(message) ==
  LET m0 == trimString(message)
      m1 == IF startsWith(m0, Fence \o "json") THEN sliceFrom(m0, 7) ELSE m0
      m2 == IF startsWith(m1, Fence) THEN sliceFrom(m1, 3) ELSE m1
      m3 == IF endsWith(m2, Fence) THEN sliceEnd(m2, 3) ELSE m2
  IN trimString(m3)

(***************************************************************************)
(* Requests and gateway replies                                            *)
(***************************************************************************)
ChatMessage(role, c, img) == [role |-> role, content |-> c, image_url |-> img]

\* the last message of a request: the text the user sent
Prompts ==
  { "Explain the compiler",
    "draw a flowchart of admission",
    "explain the fee structure",
    "Show me the FEES diagram",
    "update the model",
    "what is a design pattern",
    "hostel rules",
    "" }

\* the messages before it
Histories ==
  { <<>>,
    <<ChatMessage("user", "BCA fees", NULL),
      ChatMessage("assistant", "BCA fees are 50000", NULL)>> }

\* a request: its method, whether req.json() resolves, and the messages of
\* the body (<<>> when the body has none); sendMessage puts the user's
\* message last
Request(method, bodyOk, msgs) == [method |-> method, bodyOk |-> bodyOk, messages |-> msgs]

Requests ==
  { Request("OPTIONS", FALSE, <<>>),
    Request("POST", FALSE, <<>>),
    Request("POST", TRUE, <<>>),
    Request("POST", TRUE, << <<>> >>) }
  \cup { Request("POST", TRUE, <<h \o <<ChatMessage("user", c, img)>> >>) :
           h \in Histories, c \in Prompts, img \in ImageUrls }

Apology == "I apologize, but I could not generate a response. Please try again."

\* data.choices?.[0]?.message?.content of the gateway's reply
FallbackTexts ==
  { "A compiler translates source code.",
    PayloadFull,
    Fence \o "json\n" \o PayloadFull \o "\n" \o Fence,
    Fence \o "\n" \o PayloadNoLinks \o "\n" \o Fence \o "\n",
    " \n" \o PayloadFull,
    "Here is the answer: " \o PayloadFull,
    PayloadNoPrompt,
    PayloadEmptyPrompt,
    PayloadOtherType,
    PayloadTruncated,
    Fence \o "json\n" \o PayloadTruncated,
    "null", "42", "[]", "\"A compiler translates source code.\"",
    "" }

\* how a fetch of the gateway settles: it throws, or resolves to a response
\* that is not ok, whose body is no JSON, or that is ok
Reply(kind, status, value) == [kind |-> kind, status |-> status, value |-> value]

GatewayReplies ==
  { Reply("throw", 0, <<>>), Reply("invalidBody", 200, <<>>),
    Reply("status", 429, <<>>), Reply("status", 402, <<>>), Reply("status", 500, <<>>),
    Reply("ok", 200, <<>>) }
  \cup { Reply("ok", 200, <<t>>) : t \in FallbackTexts }

\* imageData.choices?.[0]?.message?.images?.[0]?.image_url?.url
ImageReplies ==
  { Reply("throw", 0, <<>>), Reply("invalidBody", 200, <<>>),
    Reply("status", 500, <<>>), Reply("status", 429, <<>>),
    Reply("ok", 200, <<>>), Reply("ok", 200, <<"">>),
    Reply("ok", 200, <<"data:image/png;base64">>) }

(***************************************************************************)
(* The handler, one action per stretch between two fetches                 *)
(***************************************************************************)
\* new Response(JSON.stringify({error}), {status}) and
\* new Response(JSON.stringify(responseData))
ErrorResponse(status, error) == [status |-> status, error |-> error, data |-> <<>>]

OkResponse(data) == [status |-> 200, error |-> "", data |-> <<data>>]

\* the catch at the end of the handler
Failed == ErrorResponse(500, "Failed to process chat request")

\* a value is truthy: present and not the empty string
truthy(v) == v # <<>> /\ v # <<"">>

\* parse errors reaching the catch at the end of the handler
onParseError_Rethrow(data) == Failed

\* catch (parseError): the response is not JSON and is used as it is
onParseError(data) == OkResponse(data)

\* image errors reaching the catch at the end of the handler
onImageError_Rethrow(data) == Failed

\* catch (imgError): continue without image
onImageError(data) == OkResponse(data)

\* the handler up to the fetch of the text
Serve(req) ==
  /\ handlerPc = "idle"
  /\ request' = <<req>>
  /\ IF req.method = "OPTIONS"
     THEN /\ httpResponse' = <<[status |-> 200, error |-> "", data |-> <<>>]>>
          /\ handlerPc' = "done"
          /\ UNCHANGED needsImage
     ELSE IF ~req.bodyOk
     THEN /\ httpResponse' = <<Failed>>
          /\ handlerPc' = "done"
          /\ UNCHANGED needsImage
     ELSE IF req.messages = <<>> \/ Len(req.messages[1]) = 0
     THEN /\ httpResponse' = <<ErrorResponse(400, "Messages are required")>>
          /\ handlerPc' = "done"
          /\ UNCHANGED needsImage
     ELSE LET msgs == req.messages[1]
              lastUserMessage == msgs[Len(msgs)].content
          IN /\ needsImage' = shouldGenerateImage(lastUserMessage)
             /\ handlerPc' = "fetchText"
             /\ UNCHANGED httpResponse
  /\ UNCHANGED <<gatewayResponse, aiMessage, parsed, responseData, imageResponse,
                 pageVars, textVars, scorerVars>>

\* the fetch of the text settles
TextFetch(g) ==
  /\ handlerPc = "fetchText"
  /\ gatewayResponse' = <<g>>
  /\ IF g.kind \in {"throw", "invalidBody"} \/ (g.kind = "status" /\ g.status \notin {429, 402})
     THEN /\ httpResponse' = <<Failed>>
          /\ handlerPc' = "done"
          /\ UNCHANGED <<aiMessage, parsed, responseData>>
     ELSE IF g.kind = "status"
     THEN /\ httpResponse' =
               <<ErrorResponse(g.status,
                               IF g.status = 429
                               THEN "Rate limit exceeded. Please try again later."
                               ELSE "AI credits exhausted. Please contact support.")>>
          /\ handlerPc' = "done"
          /\ UNCHANGED <<aiMessage, parsed, responseData>>
     ELSE LET message == IF truthy(g.value) THEN g.value[1] ELSE Apology
              data == [message |-> <<message>>, source |-> "ai",
                       generated_image |-> <<>>, links |-> <<>>]
              p == JSONparse(cleanedMessage(message))
          IN /\ aiMessage' = message
             /\ parsed' = IF needsImage /\ p.ok THEN <<p.value>> ELSE <<>>
             /\ IF ~needsImage
                THEN /\ responseData' = <<data>>
                     /\ httpResponse' = <<OkResponse(data)>>
                     /\ handlerPc' = "done"
                ELSE IF ~p.ok \/ p.value.kind = "null"
                THEN /\ responseData' = <<data>>
                     /\ httpResponse' = <<onParseError(data)>>
                     /\ handlerPc' = "done"
                ELSE IF p.value.type = <<"text+image+links">> /\ truthy(p.value.image_prompt)
                THEN /\ responseData' =
                          <<[data EXCEPT !.message = p.value.text,
                                         !.links = IF p.value.links = <<>>
                                                   THEN << <<>> >>
                                                   ELSE p.value.links]>>
                     /\ handlerPc' = "fetchImage"
                     /\ UNCHANGED httpResponse
                ELSE /\ responseData' = <<data>>
                     /\ httpResponse' = <<OkResponse(data)>>
                     /\ handlerPc' = "done"
  /\ UNCHANGED <<request, needsImage, imageResponse, pageVars, textVars, scorerVars>>

\* the fetch of the image settles
ImageFetch(i) ==
  /\ handlerPc = "fetchImage"
  /\ imageResponse' = <<i>>
  /\ LET data == responseData[1]
         withImage == [data EXCEPT !.generated_image = i.value]
     IN IF i.kind \in {"throw", "invalidBody"}
        THEN /\ httpResponse' = <<onImageError(data)>>
             /\ UNCHANGED responseData
        ELSE IF i.kind = "ok" /\ truthy(i.value)
        THEN /\ responseData' = <<withImage>>
             /\ httpResponse' = <<OkResponse(withImage)>>
        ELSE /\ httpResponse' = <<OkResponse(data)>>
             /\ UNCHANGED responseData
  /\ handlerPc' = "done"
  /\ UNCHANGED <<request, needsImage, gatewayResponse, aiMessage, parsed,
                 pageVars, textVars, scorerVars>>

HandlerNext ==
  \/ \E req \in Requests : Serve(req)
  \/ \E g \in GatewayReplies : TextFetch(g)
  \/ \E i \in ImageReplies : ImageFetch(i)

HandlerSpec == Init /\ [][HandlerNext]_vars

(***************************************************************************)
(* normalize and extractKeyTerms as functions of a text                    *)
(***************************************************************************)
\* a text has at most this many atoms
MaxLen == 4

\* the atoms of the texts: whitespace, punctuation, a chunk with an
\* upper-case letter, a word, a filler word and a one-letter word
Atoms == {" ", "\t", "?", "'", "Fees", "bca", "the", "v"}

TextInputs == UNION { [1..n -> Atoms] : n \in 0..MaxLen }

TextInit ==
  /\ NoChat
  /\ NoRequest
  /\ NoQuery
  /\ text \in TextInputs
  /\ normalized = <<>>
  /\ keyTerms = <<>>

\* normalize(text)
Normalize ==
  /\ normalized = <<>>
  /\ normalized' = <<normalize(text)>>
  /\ UNCHANGED <<text, keyTerms, pageVars, handlerVars, scorerVars>>

\* extractKeyTerms(text)
ExtractKeyTerms ==
  /\ keyTerms = <<>>
  /\ keyTerms' = <<extractKeyTerms(text)>>
  /\ UNCHANGED <<text, normalized, pageVars, handlerVars, scorerVars>>

\* the normalized text becomes the argument
Renormalize ==
  /\ normalized # <<>>
  /\ text' = normalized[1]
  /\ normalized' = <<>>
  /\ keyTerms' = <<>>
  /\ UNCHANGED <<pageVars, handlerVars, scorerVars>>

TextNext == Normalize \/ ExtractKeyTerms \/ Renormalize

TextSpec == TextInit /\ [][TextNext]_vars

(***************************************************************************)
(* The callback of questions.map as a function of a query and a row        *)
(***************************************************************************)
\* a row has at most this many keyword phrases
MaxKeywords == 2

ScorerQueries ==
  { W(<<"bca", "hostel", "fees">>),
    W(<<"3rd", "semester", "fees">>),
    <<"BCA", " ", "fees">>,
    W(<<"hostel", "fees">>),
    <<"fees">>,
    W(<<"bca", "computer", "science", "fees">>),
    <<"2nd", " ", "Semester", " ", "fees", "?">>,
    W(<<"bca", "fees", "admission">>),
    W(<<"bca", "mca", "bba", "bsc", "fees">>),
    W(<<"bca", "mca", "bba", "fees">>),
    W(<<"computer", "science">>),
    W(<<"semester", "i", "fees">>) }

ScorerQuestions ==
  { W(<<"what", "are", "bca", "fees">>),
    W(<<"2nd", "semester", "fees">>),
    <<"Computer", " ", "Science", " ", "Fees", "?">>,
    W(<<"bca", "mca", "fees">>),
    W(<<"bca", "mca", "bba", "msc", "mcom", "fees">>),
    W(<<"mca", "fees", "structure">>),
    W(<<"bca", "fees">>),
    W(<<"semester", "v", "fees">>) }

ScorerCategories == { <<>>, <<"Fees">> }

KeywordPhrases ==
  { <<" ", "BCA", " ", "fees">>,
    W(<<"hostel", "fees", "bca">>),
    W(<<"semester", "fees", "3rd">>) }

ScorerKeywords == UNION { [1..n -> KeywordPhrases] : n \in 0..MaxKeywords }

ScorerRows ==
  { Row(question, "answer", category, keywords) :
      question \in ScorerQuestions, category \in ScorerCategories,
      keywords \in ScorerKeywords }

ScorerInit ==
  /\ NoChat
  /\ NoRequest
  /\ NoText
  /\ query \in ScorerQueries
  /\ entry \in { <<q>> : q \in ScorerRows }
  /\ candidate = <<>>

\* the callback is applied to the row
ScoreEntry ==
  /\ candidate = <<>>
  /\ candidate' = <<scoreQuestion(Join(normalize(query)), extractKeyTerms(query), entry[1])>>
  /\ UNCHANGED <<query, entry, pageVars, handlerVars, textVars>>

ScorerNext == ScoreEntry

ScorerSpec == ScorerInit /\ [][ScorerNext]_vars

(***************************************************************************)
(* Properties                                                              *)
(***************************************************************************)
\* the texts of the inputs, with their meaningful terms and normalized strings
Texts == Contents \cup {<<>>} \cup {r.question_en : r \in RowPool}

textTerms == [t \in Texts |-> extractKeyTerms(t)]

textNormal == [t \in Texts |-> Join(normalize(t))]

inputTerms == textTerms[content]

normalizedInput == textNormal[content]

\* the state findBestMatch has just returned in
Matched == pc = "respond"

Confident == ~matchResult.isNull /\ ~matchResult.ambiguous

Ambiguous == ~matchResult.isNull /\ matchResult.ambiguous

NoMatch == matchResult.isNull

\* the row has the normalized text of the query as its normalized question
ExactRow(q) == normalizedInput = textNormal[q.question_en]

\* C1 (as stated): after findBestMatch on a query without image, when the
\* knowledge base has a row whose normalized question is the normalized query
\* - the rows fetched, or any row of the pool when no fetch was made - the
\* outcome is Confident
C1_ExactIsConfident ==
  (Matched /\ imageUrl = NULL)
    => /\ fetched =>
            \A i \in 1..Len(questions.rows) : ExactRow(questions.rows[i]) => Confident
       /\ ~fetched => \A r \in RowPool : ExactRow(r) => Confident

\* C1 (amended): for a query without image that is not explanation-only,
\* every fetched row whose normalized question is the normalized query is
\* scored 100 with reason exact, and the outcome is Confident with a candidate
\* of score 100
C1_ExactIsConfidentUnlessExplanation ==
  (Matched /\ imageUrl = NULL /\ (Len(inputTerms) = 0 \/ hasActionWord(inputTerms)))
    => /\ fetched
       /\ \A i \in 1..Len(questions.rows) :
            ExactRow(questions.rows[i])
              => /\ scored[i].score = Num(100)
                 /\ scored[i].matchReason = "exact"
                 /\ Confident
                 /\ matchResult.matches[1].score = Num(100)

\* C1 witness: a query that differs from the stored question before
\* normalization is matched exactly among several rows
C1_Witness ==
  /\ Matched
  /\ imageUrl = NULL
  /\ Len(questions.rows) >= 2
  /\ \E i \in 1..Len(questions.rows) :
       /\ ExactRow(questions.rows[i])
       /\ Join(content) # Join(questions.rows[i].question_en)
       /\ Join(questions.rows[i].question_en) # normalizedInput
       /\ scored[i].matchReason = "exact"
  /\ Confident

\* the score and reason the rules before the critical-term gate give a row
beforeGateTable ==
  [c \in Contents |->
     [r \in RowPool |->
        ruleKeywordTerms(
          ruleKeywordExact(ruleExact(textNormal[c], r), textNormal[c], keywordsOf(r)),
          textTerms[c], keywordsOf(r))]]

beforeGate(q) ==
  beforeGateTable[content][Row(q.question_en, q.answer_en[1], q.category, q.keywords)]

hasCritical(terms) == \E i \in 1..Len(terms) : terms[i] \in criticalTerms

criticalSet(terms) == {terms[i] : i \in {j \in 1..Len(terms) : terms[j] \in criticalTerms}}

\* C2: a fetched row that the exact and keyword rules gave no score, that
\* has a critical term as the query has, and whose set of critical terms is
\* not the query's, has score 0 and reason critical-mismatch
C2_CriticalGate ==
  (Matched /\ fetched)
    => \A i \in 1..Len(questions.rows) :
         LET q == questions.rows[i]
             questionTerms == textTerms[q.question_en]
         IN (/\ IsZero(beforeGate(q).score)
             /\ hasCritical(inputTerms)
             /\ hasCritical(questionTerms)
             /\ criticalSet(inputTerms) # criticalSet(questionTerms))
              => /\ IsZero(scored[i].score)
                 /\ scored[i].matchReason = "critical-mismatch"

\* C3: a query with an image gets no match without fetching or scoring, one
\* call of the chat function is made for it and its reply has source ai
C3_ImageEscalates ==
  imageUrl # NULL
    => /\ ~fetched /\ scored = <<>> /\ questions = NoData
       /\ pc \in {"respond", "invokeChat", "saveBotMessage", "refetch"} => NoMatch
       /\ pc = "invokeChat" => chatCalls = 1 /\ botMessage = <<>>
       /\ pc \in {"saveBotMessage", "refetch"}
            => /\ chatCalls = 1
               /\ botMessage[1].source = "ai"
       /\ pc = "saveBotMessage" => messages[Len(messages)] = botMessage[1]

\* C3 witness: the reply of the fallback to a query with an image whose text
\* is the question of a row
C3_Witness ==
  /\ pc = "saveBotMessage"
  /\ imageUrl # NULL
  /\ \E r \in RowPool : ExactRow(r) /\ hasActionWord(inputTerms)
  /\ botMessage[1].source = "ai"
  /\ botMessage[1].content = <<"AI answer">>

\* C4: a query without image with at least one meaningful term and no action
\* word among its terms gets no match and no fetch is made; and a query
\* without image for which no fetch is made is of that kind
C4_ExplanationOnly ==
  (Matched /\ imageUrl = NULL)
    => LET explanation ==
             /\ Len(inputTerms) >= 1
             /\ \A i \in 1..Len(inputTerms) : inputTerms[i] \notin actionWords
       IN /\ explanation => NoMatch /\ ~fetched /\ scored = <<>>
          /\ ~fetched => explanation

\* C4 witness: "computer science" is not matched although a row
\* "computer science fees" contains all its terms
C4_Witness ==
  /\ Matched
  /\ imageUrl = NULL
  /\ inputTerms = <<"computer", "science">>
  /\ \E r \in RowPool :
       /\ allTermsMatch(inputTerms, textTerms[r.question_en])
       /\ hasActionWord(textTerms[r.question_en])
  /\ NoMatch
  /\ ~fetched

\* C5: for a query whose only meaningful term is a single common word, every
\* candidate of the outcome has a score of at least 85, and the outcome is
\* NoMatch when no fetched row has such a score
C5_VagueNeeds85 ==
  (Matched /\ imageUrl = NULL /\ Len(inputTerms) = 1 /\ inputTerms[1] \in singleCommonWords)
    => /\ \A k \in 1..Len(matchResult.matches) : GE(matchResult.matches[k].score, Num(85))
       /\ (\A i \in 1..Len(scored) : LT(scored[i].score, Num(85))) => NoMatch
       /\ (\E i \in 1..Len(scored) : GE(scored[i].score, Num(85))) => ~NoMatch

\* C5 witness: for the query "fees" a row of score 72 is not answered
C5_Witness ==
  /\ Matched
  /\ imageUrl = NULL
  /\ inputTerms = <<"fees">>
  /\ \E i \in 1..Len(scored) : scored[i].score = Num(72)
  /\ \A i \in 1..Len(scored) : LT(scored[i].score, Num(85))
  /\ NoMatch

\* the threshold of the query, and the fetched rows that reach it
threshold == Num(IF Len(inputTerms) = 1 /\ inputTerms[1] \in singleCommonWords THEN 85 ELSE 70)

passing == {i \in 1..Len(scored) : GE(scored[i].score, threshold)}

\* row i comes before row j: higher score, or same score and earlier position
before(i, j) ==
  \/ LT(scored[j].score, scored[i].score)
  \/ EQ(scored[i].score, scored[j].score) /\ i < j

\* the rows no other row has a higher score than
topRows == {i \in 1..Len(scored) : \A j \in 1..Len(scored) : GE(scored[i].score, scored[j].score)}

\* C6: when exactly two fetched rows have the top score, that score is
\* below 90 and reaches the threshold, and every other row is more than 5
\* below it, the outcome is Ambiguous with exactly these two rows in the order
\* of the table
C6_TwoWayTie ==
  (Matched /\ fetched /\ Len(scored) >= 1)
    => \A i, j \in 1..Len(scored) :
         (/\ i < j
          /\ topRows = {i, j}
          /\ LT(scored[i].score, Num(90))
          /\ GE(scored[i].score, threshold)
          /\ \A k \in 1..Len(scored) \ {i, j} :
               LT(scored[k].score, Minus(scored[i].score, 5)))
           => /\ Ambiguous
              /\ matchResult.matches = <<scored[i], scored[j]>>

\* C6 witness: rows 1 and 3 tie at 85, row 2 has score 72
C6_Witness ==
  /\ Matched
  /\ Len(scored) = 3
  /\ scored[1].score = Num(85)
  /\ scored[2].score = Num(72)
  /\ scored[3].score = Num(85)
  /\ Ambiguous
  /\ matchResult.matches = <<scored[1], scored[3]>>

\* C7: when some fetched row reaches the threshold, with cluster the rows
\* that reach it and are at most 5 below the top score: the outcome is
\* Ambiguous iff the cluster has more than one row and the top score is below
\* 90; it then carries the first min(3, |cluster|) rows of the cluster in the
\* order of descending score, position breaking ties; otherwise it is
\* Confident and carries the first row of top score
C7_Classification ==
  (Matched /\ fetched /\ passing # {})
    => LET first == CHOOSE i \in passing : \A j \in passing \ {i} : before(i, j)
           top == scored[first].score
           cluster == {i \in passing : GE(scored[i].score, Minus(top, 5))}
           carried == matchResult.matches
           size == IF Cardinality(cluster) < 3 THEN Cardinality(cluster) ELSE 3
       IN /\ Ambiguous <=> (Cardinality(cluster) > 1 /\ LT(top, Num(90)))
          /\ Ambiguous =>
               /\ Len(carried) = size
               /\ \A k \in 1..Len(carried) :
                    /\ carried[k].q.id \in cluster
                    /\ carried[k] = scored[carried[k].q.id]
               /\ \A k \in 1..(Len(carried) - 1) : before(carried[k].q.id, carried[k + 1].q.id)
               /\ \A i \in cluster \ {carried[k].q.id : k \in 1..Len(carried)} :
                    \A k \in 1..Len(carried) : before(carried[k].q.id, i)
          /\ ~Ambiguous => Confident /\ carried = <<scored[first]>>

\* C7 witness: four rows tie below 90 and three of them are carried
C7_Witness ==
  /\ Matched
  /\ Len(scored) = 4
  /\ \A i \in 1..4 : scored[i].score = Num(72)
  /\ Ambiguous
  /\ matchResult.matches = <<scored[1], scored[2], scored[3]>>

\* C8: when some fetched row reaches the threshold and exactly one row has
\* the top score, the outcome is Confident with that row; and an Ambiguous
\* outcome has at least two rows that reach the threshold
C8_SingleTopIsConfident ==
  (Matched /\ fetched)
    => /\ \A i \in 1..Len(scored) :
            (passing # {} /\ topRows = {i})
              => Confident /\ matchResult.matches = <<scored[i]>>
       /\ Ambiguous => Cardinality(passing) >= 2

\* C8 witness: one row at 85 and other rows at 72, which reach the threshold
C8_Witness ==
  /\ Matched
  /\ Len(scored) >= 2
  /\ \E i \in 1..Len(scored) :
       /\ scored[i].score = Num(85)
       /\ \A j \in 1..Len(scored) \ {i} : scored[j].score = Num(72)
       /\ matchResult.matches = <<scored[i]>>
  /\ Confident

\* the case of C9: at least two terms, one of them an action word, all among
\* the terms of the row, no score from the exact and keyword rules, no
\* critical-term mismatch
AllTermsCase(q) ==
  LET questionTerms == textTerms[q.question_en]
  IN /\ Len(inputTerms) >= 2
     /\ \E k \in 1..Len(inputTerms) : inputTerms[k] \in actionWords
     /\ \A k \in 1..Len(inputTerms) :
          \E j \in 1..Len(questionTerms) : questionTerms[j] = inputTerms[k]
     /\ IsZero(beforeGate(q).score)
     /\ ~(/\ hasCritical(inputTerms)
          /\ hasCritical(questionTerms)
          /\ criticalSet(inputTerms) # criticalSet(questionTerms))

\* C9: a fetched row in the case above has score 95 and reason
\* all-terms-match; and when it is the only row, the outcome is Confident and
\* the next step shows the row's answer with source database, calling no chat
\* function
C9_AllTermsMatch ==
  /\ [](  (Matched /\ imageUrl = NULL /\ fetched)
            => \A i \in 1..Len(questions.rows) :
                 AllTermsCase(questions.rows[i])
                   => /\ scored[i].score = Num(95)
                      /\ scored[i].matchReason = "all-terms-match"
                      /\ Len(questions.rows) = 1 => Confident)
  /\ [][ (/\ Matched /\ imageUrl = NULL /\ fetched
          /\ Len(questions.rows) = 1
          /\ AllTermsCase(questions.rows[1]))
           => /\ pc' = "saveBotMessage"
              /\ botMessage'[1].content = questions.rows[1].answer_en
              /\ botMessage'[1].source = "database"
              /\ messages' = Append(messages, botMessage'[1])
              /\ chatCalls' = chatCalls ]_vars

\* C9 witness: "BCA fees" answered from the row "what are bca fees"
C9_Witness ==
  /\ pc = "saveBotMessage"
  /\ normalizedInput = "bca fees"
  /\ matchResult.matches[1].matchReason = "all-terms-match"
  /\ matchResult.matches[1].score = Num(95)
  /\ Join(matchResult.matches[1].q.question_en) = "what are bca fees"
  /\ botMessage[1].content = <<"BCA fees are 50000">>
  /\ botMessage[1].source = "database"
  /\ chatCalls = 0

\* the fetch of the questions gave no data or no rows
EmptyKnowledgeBase == fetched /\ (questions.isNull \/ Len(questions.rows) = 0)

\* C10: when the fetch gives no data or no rows, findBestMatch returns null
\* without throwing, and the next step calls the chat function
C10_EmptyKnowledgeBase ==
  /\ [](EmptyKnowledgeBase => pc = "respond" /\ matchResult = NullResult)
  /\ [][ EmptyKnowledgeBase
           => pc' = "invokeChat" /\ chatCalls' = chatCalls + 1 /\ botMessage' = <<>> ]_vars

\* C10 witness: a query with an action word, and a fetch that gave no data
C10_Witness ==
  /\ Matched
  /\ hasActionWord(inputTerms)
  /\ fetched
  /\ questions.isNull
  /\ NoMatch

(***************************************************************************)
(* Properties of the chat function                                         *)
(***************************************************************************)
\* the handler has taken the request and computed needsImage from the last
\* message of its messages
Served ==
  \/ handlerPc \in {"fetchText", "fetchImage"}
  \/ handlerPc = "done" /\ gatewayResponse # <<>>

lastMessage == request[1].messages[1][Len(request[1].messages[1])].content

\* the texts of the requests with their letters in lower case
lowered == [c \in Prompts |-> lowerCase(c)]

\* the phrase occurs in the text
occursIn(phrase, txt) ==
  \E i \in 0..(Len(txt) - Len(phrase)) : SubSeq(txt, i + 1, i + Len(phrase)) = phrase

\* C11: needsImage is true iff the last message of the request contains an
\* image-trigger phrase and no no-image-topic phrase (as a substring, the
\* case of the letters not counting); with a no-image-topic phrase it is
\* false whatever triggers it has
C11_NeedsImage ==
  Served
    => LET hasTrigger ==
             \E t \in imageGenerationTriggers : occursIn(t, lowered[lastMessage])
           hasTopic == \E t \in noImageTopics : occursIn(t, lowered[lastMessage])
       IN /\ needsImage <=> (hasTrigger /\ ~hasTopic)
          /\ hasTopic => ~needsImage

\* C11 witness: a message with the triggers "show me" and "diagram" and
\* the topic "fees" in upper case gets no image
C11_Witness ==
  /\ Served
  /\ lastMessage = "Show me the FEES diagram"
  /\ occursIn("show me", lowered[lastMessage])
  /\ occursIn("diagram", lowered[lastMessage])
  /\ occursIn("fees", lowered[lastMessage])
  /\ ~occursIn("fees", lastMessage)
  /\ ~needsImage

\* the text fetch resolved to an ok response with a JSON body
TextArrived == handlerPc \in {"fetchImage", "done"} /\ gatewayResponse # <<>>
               /\ gatewayResponse[1].kind = "ok"

\* the fallback text without its fence, parsed
fallbackParse == JSONparse(cleanedMessage(aiMessage))

\* the fallback text is no JSON text, or the JSON text of a non-object
Malformed == ~fallbackParse.ok \/ fallbackParse.value.kind # "object"

\* the fallback text is the JSON text of a payload of type text+image+links
StructuredPayload ==
  /\ fallbackParse.ok
  /\ fallbackParse.value.kind = "object"
  /\ fallbackParse.value.type = <<"text+image+links">>

\* the links of the payload, none when it has no links property
payloadLinks ==
  IF fallbackParse.value.links = <<>> THEN <<>> ELSE fallbackParse.value.links[1]

\* C12: when the fallback text (the handler's aiMessage: the content of the
\* gateway's reply when it has one) is malformed, the handler has returned a
\* response of status 200 whose message is the whole fallback text, without
\* links and without generated image, and no image was asked for
C12_MalformedPayload ==
  (TextArrived /\ Malformed)
    => /\ handlerPc = "done"
       /\ imageResponse = <<>>
       /\ truthy(gatewayResponse[1].value) => aiMessage = gatewayResponse[1].value[1]
       /\ httpResponse # <<>>
       /\ httpResponse[1].status = 200
       /\ httpResponse[1].data # <<>>
       /\ httpResponse[1].data[1].message = <<aiMessage>>
       /\ httpResponse[1].data[1].links = <<>>
       /\ httpResponse[1].data[1].generated_image = <<>>

\* C12 witness: a fenced payload cut short, for a request that needs an image
C12_Witness ==
  /\ handlerPc = "done"
  /\ needsImage
  /\ aiMessage = Fence \o "json\n" \o PayloadTruncated
  /\ cleanedMessage(aiMessage) = PayloadTruncated
  /\ Malformed
  /\ httpResponse[1].status = 200
  /\ httpResponse[1].data[1].message = <<aiMessage>>

\* C13: when the fallback text of a request that needs an image is a
\* payload of type text+image+links, the response data has the payload's text
\* as message and the payload's links, and the image request was issued
C13_StructuredPayload ==
  (TextArrived /\ needsImage /\ StructuredPayload)
    => /\ responseData[1].message = fallbackParse.value.text
       /\ responseData[1].links = <<payloadLinks>>
       /\ handlerPc = "fetchImage" \/ imageResponse # <<>>

\* the image fetch threw, resolved to a response that is not ok, or gave no
\* image URL
ImageFailed ==
  /\ imageResponse # <<>>
  /\ \/ imageResponse[1].kind \in {"throw", "invalidBody", "status"}
     \/ ~truthy(imageResponse[1].value)

\* C14: when the image fetch failed, the handler has returned a response of
\* status 200 with the payload's text and links and without generated image
C14_ImageFailure ==
  (handlerPc = "done" /\ ImageFailed)
    => /\ StructuredPayload
       /\ httpResponse # <<>>
       /\ httpResponse[1].status = 200
       /\ httpResponse[1].error = ""
       /\ httpResponse[1].data # <<>>
       /\ httpResponse[1].data[1].message = fallbackParse.value.text
       /\ httpResponse[1].data[1].links = <<payloadLinks>>
       /\ httpResponse[1].data[1].generated_image = <<>>

\* C14 witness: the image fetch threw after a fenced payload with a link
C14_Witness ==
  /\ handlerPc = "done"
  /\ imageResponse = <<Reply("throw", 0, <<>>)>>
  /\ aiMessage = Fence \o "json\n" \o PayloadFull \o "\n" \o Fence
  /\ httpResponse[1].status = 200
  /\ httpResponse[1].data[1].message = <<"A compiler translates source code.">>
  /\ httpResponse[1].data[1].links = << <<WikipediaLink>> >>
  /\ httpResponse[1].data[1].generated_image = <<>>

\* the call of the chat function failed: invoke threw, or the function
\* answered with a failure status
FallbackFailed == response # <<>> /\ response[1].kind \in {"throw", "error"}

\* C15: when the call of the chat function failed, sendMessage goes on to
\* save its reply, and the reply shown is the generic message with source
\* ai, without image and without links
C15_FailedFallback ==
  FallbackFailed
    => /\ pc \in {"saveBotMessage", "refetch"}
       /\ botMessage # <<>>
       /\ botMessage[1].role = "assistant"
       /\ botMessage[1].content =
            <<"I don't have exact information for this. Could you please clarify your question?">>
       /\ botMessage[1].source = "ai"
       /\ botMessage[1].image_url = NULL
       /\ botMessage[1].links = <<>>
       /\ ~isLoading
       /\ pc = "saveBotMessage" => messages[Len(messages)] = botMessage[1]

\* C15 witness: the chat function answered with status 429
C15_Witness ==
  /\ pc = "saveBotMessage"
  /\ response # <<>>
  /\ response[1].kind = "error"
  /\ response[1].status = 429
  /\ botMessage[1].content = GenericReply
  /\ botMessage[1].source = "ai"
  /\ messages[Len(messages)] = botMessage[1]

(***************************************************************************)
(* Properties of normalize and extractKeyTerms                             *)
(***************************************************************************)
\* C16: normalizing a normalized text gives the same text; a normalized text
\* has no upper-case chunk, no punctuation, no whitespace but single spaces,
\* and no space at its ends
C16_NormalizeIdempotent ==
  normalized # <<>>
    => LET n == normalized[1]
       IN /\ normalize(n) = n
          /\ Join(normalize(n)) = Join(n)
          /\ \A i \in 1..Len(n) :
               /\ n[i] \notin DOMAIN UpperChunks
               /\ n[i] \notin Punctuation
               /\ n[i] \in Whitespace
                    => n[i] = " " /\ 1 < i /\ i < Len(n) /\ n[i + 1] \notin Whitespace

\* C16 witness: a text with an upper-case chunk and a run of whitespace
C16_Witness ==
  /\ text = <<"Fees", "\t", " ", "bca">>
  /\ normalized = << <<"fees", " ", "bca">> >>
  /\ normalize(normalized[1]) = normalized[1]

\* C17: the meaningful terms of the normalized text are the meaningful terms
\* of the text, and so are its action words, its other terms and its critical
\* terms
C17_TermsOfNormalized ==
  keyTerms # <<>>
    => LET a == keyTerms[1]
           b == extractKeyTerms(normalize(text))
       IN /\ b = a
          /\ SelectSeq(b, LAMBDA w : w \in actionWords)
               = SelectSeq(a, LAMBDA w : w \in actionWords)
          /\ SelectSeq(b, LAMBDA w : w \notin actionWords)
               = SelectSeq(a, LAMBDA w : w \notin actionWords)
          /\ SelectSeq(b, LAMBDA w : w \in criticalTerms)
               = SelectSeq(a, LAMBDA w : w \in criticalTerms)

\* C17 witness: a text that normalization changes
C17_Witness ==
  /\ text = <<"the", " ", "Fees", "?">>
  /\ normalize(text) = <<"the", " ", "fees">>
  /\ keyTerms = << <<"fees">> >>
  /\ extractKeyTerms(normalize(text)) = <<"fees">>

(***************************************************************************)
(* Properties of the scorer                                                *)
(***************************************************************************)
\* what the callback gives a row of the pool for a text, whatever the table
ownScore ==
  [c \in Contents |-> [r \in RowPool |-> scoreQuestion(textNormal[c], textTerms[c], r)]]

\* the question, answer, category and keywords of a fetched row
ownFields(q) == Row(q.question_en, q.answer_en[1], q.category, q.keywords)

qTerms == extractKeyTerms(query)

eTerms == extractKeyTerms(entry[1].question_en)

elems(seq) == {seq[i] : i \in 1..Len(seq)}

phraseTerms(k) == extractKeyTerms(entry[1].keywords[k])

phrases == 1..Len(entry[1].keywords)

\* the conditions of the rules
Exact == Join(normalize(query)) = Join(normalize(entry[1].question_en))

KeywordExact == \E k \in phrases : Join(normalize(query)) = Join(normalize(entry[1].keywords[k]))

Forward(k) == Len(qTerms) >= 1 /\ elems(qTerms) \subseteq elems(phraseTerms(k))

Reverse(k) == Len(phraseTerms(k)) >= 2 /\ elems(phraseTerms(k)) \subseteq elems(qTerms)

KeywordTerms == \E k \in phrases : Forward(k) \/ Reverse(k)

CriticalGate ==
  /\ elems(qTerms) \cap criticalTerms # {}
  /\ elems(eTerms) \cap criticalTerms # {}
  /\ elems(qTerms) \cap criticalTerms # elems(eTerms) \cap criticalTerms

AllTerms == Len(qTerms) >= 2 /\ elems(qTerms) \subseteq elems(eTerms)

ActionMatch == elems(qTerms) \cap elems(eTerms) \cap actionWords # {}

qSubjects == SelectSeq(qTerms, LAMBDA w : w \notin actionWords)

eSubjects == SelectSeq(eTerms, LAMBDA w : w \notin actionWords)

\* how many words of a are among the words of b
covered(a, b) == Cardinality({i \in 1..Len(a) : a[i] \in elems(b)})

\* at least tenths/10 of the words of a are among the words of b
ratioAtLeast(a, b, tenths) == Len(a) > 0 /\ 10 * covered(a, b) >= tenths * Len(a)

ReverseFull ==
  ActionMatch /\ ratioAtLeast(eSubjects, qSubjects, 8) /\ ratioAtLeast(qSubjects, eSubjects, 5)

SubjectAction == ActionMatch /\ ratioAtLeast(qSubjects, eSubjects, 7)

ReverseSubjectAction == ActionMatch /\ ratioAtLeast(eSubjects, qSubjects, 8)

CategoryTerm ==
  /\ entry[1].category # <<>>
  /\ Join(toLowerCase(entry[1].category)) \in elems(qTerms)
  /\ elems(qTerms) \cap elems(eTerms) # {}

\* the candidate has this score and reason
Scored(score, reason) == EQ(candidate[1].score, score) /\ candidate[1].matchReason = reason

\* C19: the score and reason of a row are those of the first rule, in the
\* order exact, keyword-phrase-exact, keyword-phrase-terms, critical gate,
\* all-terms-match, reverse-full-match, subject-action-match,
\* reverse-subject-action, category-term, whose condition holds
C19_RulePriority ==
  candidate # <<>>
    => IF Exact THEN Scored(Num(100), "exact")
       ELSE IF KeywordExact THEN Scored(Num(98), "keyword-phrase-exact")
       ELSE IF KeywordTerms
            THEN \/ Scored(Num(92), "keyword-phrase-terms")
                 \/ Scored(Num(90), "keyword-phrase-reverse")
       ELSE IF CriticalGate THEN Scored(Num(0), "critical-mismatch")
       ELSE IF AllTerms THEN Scored(Num(95), "all-terms-match")
       ELSE IF ReverseFull THEN Scored(Num(92), "reverse-full-match")
       ELSE IF SubjectAction
            THEN Scored([num |-> 85 * Len(qSubjects) + 10 * covered(qSubjects, eSubjects),
                         den |-> Len(qSubjects)], "subject-action-match")
       ELSE IF ReverseSubjectAction THEN Scored(Num(85), "reverse-subject-action")
       ELSE IF CategoryTerm THEN Scored(Num(72), "category-term")
       ELSE Scored(Num(0), "")

\* the orders the keyword phrases of the row can be put in
Orders ==
  {f \in [phrases -> phrases] : \A a, b \in phrases : f[a] = f[b] => a = b}

\* C20: when neither the exact nor the keyword-phrase-exact rule fires and
\* the query has a meaningful term, the row scores 92 if a keyword phrase
\* contains all terms of the query, it scores 90 for a keyword phrase of two
\* terms or more that the query contains only if no phrase contains all terms
\* of the query, and the score is the same for every order of the phrases
C20_KeywordTerms ==
  (candidate # <<>> /\ ~Exact /\ ~KeywordExact /\ Len(qTerms) >= 1)
    => /\ (\E k \in phrases : Forward(k)) => Scored(Num(92), "keyword-phrase-terms")
       /\ ((\E k \in phrases : Reverse(k)) /\ ~(\E k \in phrases : Forward(k)))
            => Scored(Num(90), "keyword-phrase-reverse")
       /\ candidate[1].matchReason = "keyword-phrase-reverse"
            => ~(\E k \in phrases : Forward(k))
       /\ \A f \in Orders :
            LET other == scoreQuestion(Join(normalize(query)), qTerms,
                           [entry[1] EXCEPT !.keywords =
                              [k \in phrases |-> entry[1].keywords[f[k]]]])
            IN /\ other.score = candidate[1].score
               /\ other.matchReason = candidate[1].matchReason

\* no rule above the category-term rule gave the row a score
HigherRulesZero ==
  /\ ~Exact
  /\ ~KeywordExact
  /\ ~KeywordTerms
  /\ CriticalGate \/ ~(AllTerms \/ ReverseFull \/ SubjectAction \/ ReverseSubjectAction)

\* the lower-cased category of the row
eCategory == Join(toLowerCase(entry[1].category))

\* C21: a row has reason category-term only if its score is 72, every higher
\* rule scored 0, its lower-cased category is a meaningful term of the query,
\* and a meaningful term of the query other than that category term is among
\* the terms of the row
C21_CategoryTerm ==
  (candidate # <<>> /\ candidate[1].matchReason = "category-term")
    => /\ EQ(candidate[1].score, Num(72))
       /\ HigherRulesZero
       /\ eCategory \in elems(qTerms)
       /\ (elems(qTerms) \ {eCategory}) \cap elems(eTerms) # {}

\* the tokens of a text: the words split(' ') gives for its normalized form
tokens(t) == elems(split(normalize(t)))

\* the words of the critical-terms dictionary among the tokens of the query
\* and of the row's question
qCriticalTokens == tokens(query) \cap criticalTerms

eCriticalTokens == tokens(entry[1].question_en) \cap criticalTerms

\* C22: every word of the critical-terms dictionary that is a token of the
\* query or of the row's question is among its critical terms; and a row
\* without category that the exact and keyword rules gave no score, with a
\* dictionary word among its tokens as the query has, and whose dictionary
\* words are not those of the query, has score 0 and reason critical-mismatch
C22_RomanNumerals ==
  candidate # <<>>
    => /\ qCriticalTokens \subseteq elems(qTerms)
       /\ eCriticalTokens \subseteq elems(eTerms)
       /\ (/\ ~Exact /\ ~KeywordExact /\ ~KeywordTerms
           /\ entry[1].category = <<>>
           /\ qCriticalTokens # {}
           /\ eCriticalTokens # {}
           /\ qCriticalTokens # eCriticalTokens)
            => Scored(Num(0), "critical-mismatch")

\* C23: the score of a row is at least 0 and at most 100; a row with reason
\* subject-action-match has an action word in common with the query, at least
\* 7 tenths of the query's subject terms are among its terms, and its score
\* is 85 + 10 * (matched subject terms / subject terms), between 92 and 95
C23_ScoreRange ==
  candidate # <<>>
    => /\ GE(candidate[1].score, Num(0))
       /\ GE(Num(100), candidate[1].score)
       /\ candidate[1].matchReason = "subject-action-match"
            => /\ ActionMatch
               /\ Len(qSubjects) > 0
               /\ 10 * covered(qSubjects, eSubjects) >= 7 * Len(qSubjects)
               /\ EQ(candidate[1].score,
                     [num |-> 85 * Len(qSubjects) + 10 * covered(qSubjects, eSubjects),
                      den |-> Len(qSubjects)])
               /\ GE(candidate[1].score, Num(92))
               /\ GE(Num(95), candidate[1].score)

\* C23 witness: three of the four subject terms of the query are among the
\* terms of the row, which gives 92.5
C23_Witness ==
  /\ candidate # <<>>
  /\ candidate[1].matchReason = "subject-action-match"
  /\ Len(qSubjects) = 4
  /\ covered(qSubjects, eSubjects) = 3
  /\ candidate[1].score = [num |-> 370, den |-> 4]

\* C24: after findBestMatch every candidate of the outcome reaches the
\* threshold of the query (85 for a vague query, 70 otherwise), the candidates
\* are in descending order of score and the first has the highest score of
\* all fetched rows, and the outcome is NoMatch exactly when no fetch was made
\* or no fetched row reaches the threshold
C24_ThresholdFilter ==
  Matched
    => LET carried == matchResult.matches
       IN /\ \A k \in 1..Len(carried) : GE(carried[k].score, threshold)
          /\ \A k \in 1..(Len(carried) - 1) : GE(carried[k].score, carried[k + 1].score)
          /\ ~NoMatch => \A i \in 1..Len(scored) : GE(carried[1].score, scored[i].score)
          /\ NoMatch <=> (~fetched \/ passing = {})

\* C24 witness: of three rows the first is below the threshold and the third,
\* of the highest score, is the candidate
C24_Witness ==
  /\ Matched
  /\ Len(scored) = 3
  /\ scored[1].score = Num(0)
  /\ scored[2].score = Num(95)
  /\ scored[3].score = Num(100)
  /\ Confident
  /\ matchResult.matches = <<scored[3]>>

\* C25: the chat function is called in the step after findBestMatch exactly
\* when the outcome is NoMatch, once, and at no other step; a Confident or
\* Ambiguous outcome is answered in that step with source database; the reply
\* to a NoMatch outcome is shown when the call settles, with source ai; and a
\* query with an image has outcome NoMatch
C25_FallbackIffNoMatch ==
  /\ [][ chatCalls' # chatCalls
           => Matched /\ NoMatch /\ chatCalls' = chatCalls + 1 ]_vars
  /\ [][ (Matched /\ NoMatch)
           => pc' = "invokeChat" /\ chatCalls' = chatCalls + 1 /\ botMessage' = <<>> ]_vars
  /\ [][ (Matched /\ ~NoMatch)
           => /\ pc' = "saveBotMessage"
              /\ chatCalls' = chatCalls
              /\ botMessage'[1].source = "database"
              /\ messages' = Append(messages, botMessage'[1]) ]_vars
  /\ [][ pc = "invokeChat"
           => /\ pc' = "saveBotMessage"
              /\ chatCalls' = chatCalls
              /\ botMessage'[1].source = "ai"
              /\ messages' = Append(messages, botMessage'[1]) ]_vars
  /\ [](pc = "invokeChat" => NoMatch)
  /\ []((Matched /\ imageUrl # NULL) => NoMatch)

\* C25 witness: an ambiguous outcome was answered from the database without
\* a call of the chat function
C25_Witness ==
  /\ pc = "saveBotMessage"
  /\ Ambiguous
  /\ chatCalls = 0
  /\ botMessage[1].source = "database"
  /\ Len(matchResult.matches) >= 2

\* the score is strictly between the two numbers
Between(score, low, high) == LT(Num(low), score) /\ LT(score, Num(high))

\* C26: the candidates of an Ambiguous outcome all have the same score, which
\* is 72 or 85; and no fetched row has a score strictly between 72 and 85 or
\* strictly between 85 and 90
C26_AmbiguousIsTie ==
  [](Matched
       => /\ Ambiguous
               => /\ \A k \in 1..Len(matchResult.matches) :
                       matchResult.matches[k].score = matchResult.matches[1].score
                  /\ matchResult.matches[1].score \in {Num(72), Num(85)}
          /\ \A i \in 1..Len(scored) :
               /\ ~Between(scored[i].score, 72, 85)
               /\ ~Between(scored[i].score, 85, 90))

\* C26 witness: two rows tie at 85 and are carried, a row at 72 reaches the
\* threshold and is not
C26_Witness ==
  /\ Matched
  /\ Len(scored) = 3
  /\ scored[1].score = Num(85)
  /\ scored[2].score = Num(85)
  /\ scored[3].score = Num(72)
  /\ Ambiguous
  /\ matchResult.matches = <<scored[1], scored[2]>>

(***************************************************************************)
(* Properties of the chat page with its other callbacks                    *)
(***************************************************************************)
\* C27: a sendMessage that gets past the creation of the conversation sets
\* isLoading in the step that appends its user message to the list; only
\* sendMessage changes isLoading; while isLoading is set a step of sendMessage
\* leaves the list as it is, but for the step that appends the assistant
\* message and clears isLoading; and isLoading is cleared eventually,
\* whatever the insert, the fetch of the questions and the chat function
\* resolve to
C27_LoadingBracket ==
  /\ [][ (pc # "saveUserMessage" /\ pc' = "saveUserMessage")
           => /\ ~isLoading /\ isLoading'
              /\ userMessage'[1].role = "user"
              /\ \/ messages' = Append(messages, userMessage'[1])
                 \/ pc = "createNewConversation" /\ messages' = <<userMessage'[1]>> ]_vars
  /\ [][ isLoading' # isLoading => pc' # pc ]_vars
  /\ [][ (~isLoading /\ isLoading') => pc' = "saveUserMessage" ]_vars
  /\ [][ (isLoading /\ pc' # pc)
           => \/ isLoading' /\ messages' = messages
              \/ /\ ~isLoading'
                 /\ pc' = "saveBotMessage"
                 /\ botMessage'[1].role = "assistant"
                 /\ messages' = Append(messages, botMessage'[1]) ]_vars
  /\ (isLoading ~> ~isLoading)

\* C27 witness: the insert of the user message failed, the chat function
\* threw, and the list holds the user message followed by the reply
C27_Witness ==
  /\ pc = "saveBotMessage"
  /\ ~isLoading
  /\ dbMessages = <<>>
  /\ response # <<>>
  /\ response[1].kind = "throw"
  /\ messages = <<userMessage[1], botMessage[1]>>


\* C28: the message list never shows a message sendMessage sent twice: it
\* has at most one entry for each message sent (each message sent took one
\* crypto.randomUUID() call), whatever the order of the optimistic append,
\* the realtime INSERT handler and the final refetch.
C28_NoDuplicate == Len(messages) <= nextUuid

\* the i-th message of the list is one sendMessage made for its conversation
ownMessage(i) ==
  \/ userMessage # <<>> /\ messages[i] = userMessage[1]
  \/ botMessage # <<>> /\ messages[i] = botMessage[1]

\* the conversation is the current one
isCurrent(id) == currentConversation # <<>> /\ currentConversation[1].id = id

\* C29: every message of the list belongs to the current conversation, and
\* the list is empty when there is none, however sendMessage interleaves
\* with handleSelectConversation, handleNewChat and loadMessages: an entry
\* made from a row of the messages table has the conversation_id of the
\* current conversation, and a message the running sendMessage made for its
\* conversation is in the list only while that conversation is current.
C29_CurrentConversationOnly ==
  /\ [](currentConversation = <<>> => messages = <<>>)
  /\ [](\A i \in 1..Len(messages) :
          /\ \A k \in 1..Len(dbMessages) :
                (dbMessages[k].id = messages[i].id /\ dbMessages[k].conversation_id # Deleted)
                  => isCurrent(dbMessages[k].conversation_id)
          /\ (ownMessage(i) /\ conversation # <<>>) => isCurrent(conversation[1].id))
  \* the reply is appended (setMessages(prev => [...prev, botMessage])) and
  \* the refetched rows are substituted only while the conversation of the
  \* call is the current one
  /\ [][ (botMessage' # botMessage /\ botMessage' # <<>>)
           => (conversation # <<>> /\ isCurrent(conversation[1].id)) ]_vars
  /\ [][ (pc = "refetch" /\ pc' # pc /\ messages' # messages)
           => (conversation # <<>> /\ isCurrent(conversation[1].id)) ]_vars

\* C30: a delete handler whose database delete reports an error leaves the
\* conversations, the current conversation and the message list as they
\* are; when the delete of handleDeleteConversation succeeds, the list of
\* conversations loses the conversation of that id and nothing else, and
\* the current conversation and the message list are cleared if and only if
\* the conversation deleted was the current one when the handler was called.
C30_DeleteAllOrNothing ==
  /\ [][ (DeletePending /\ deleting'[1].status = "error")
           => UNCHANGED <<conversations, currentConversation, messages>> ]_vars
  /\ [][ (DeletePending /\ deleting'[1].status = "ok" /\ deleting[1].kind = "conversation")
           => /\ conversations' =
                   SelectSeq(conversations, LAMBDA c : <<c.id>> # deleting[1].id)
              /\ IF /\ deleting[1].current # <<>>
                    /\ <<deleting[1].current[1].id>> = deleting[1].id
                 THEN currentConversation' = <<>> /\ messages' = <<>>
                 ELSE UNCHANGED <<currentConversation, messages>> ]_vars

\* the conversation a message was sent in was deleted while it was the
\* current one: the view is cleared and the other conversation stays
C30_Witness ==
  /\ deleting # <<>> /\ deleting[1].status = "ok" /\ deleting[1].kind = "conversation"
  /\ deleting[1].current # <<>> /\ <<deleting[1].current[1].id>> = deleting[1].id
  /\ dbMessages # <<>>
  /\ conversations = <<ExistingConversation>>
  /\ currentConversation = <<>> /\ messages = <<>>

====
